---- MODULE Spec2Model ----
(***************************************************************************)
(* Carbonseed backend: telemetry signal engine.                            *)
(*                                                                         *)
(* Model of app/routers/signals.py (threshold rules, per-reading signal    *)
(* processing, the two sweeps, acknowledge), app/routers/simulator.py      *)
(* (reading ingestion) and app/services/gemini.py (the AI collaborator).   *)
(*                                                                         *)
(* Numbers.  Sensor channels are Python floats.  A channel value v is      *)
(* represented by the integer 100 * v (hundredths), so 900.01 is 90001 and *)
(* 8.0 is 800.  An Optional[float] is a sequence of length at most one:    *)
(* None is << >> and the float v is << 100 * v >>.  Times are integers     *)
(* (hours); an Optional[datetime] is represented the same way.             *)
(***************************************************************************)
EXTENDS Integers, Sequences, FiniteSets, TLC

VARIABLES
    now,          \* datetime.utcnow(), in hours
    devices,      \* table devices: row id -> row
    readings,     \* table sensor_readings: sequence, row id = index
    signals,      \* table signals: sequence, row id = index
    last,         \* what the last request did and returned
    evalReading,  \* input of the check_thresholds evaluation
    evalResult,   \* the function called on it, if any, and what it returned
    sweeps        \* worker -> the mock sweep it is running and where it stands

vars == <<now, devices, readings, signals, last, evalReading, evalResult, sweeps>>

-----------------------------------------------------------------------------
(* Optional values and Python truthiness                                   *)

None == << >>

Some(v) == <<v>>

\* float(v) with v given in whole units
F(v) == v * 100

\* `if x:` on an Optional[float]: None and 0.0 are falsy
Truthy(x) == x # None /\ x[1] # 0

\* `x or 0`
OrZero(x) == IF Truthy(x) THEN x[1] ELSE 0

Range(f) == {f[i] : i \in DOMAIN f}

Max2(a, b) == IF a >= b THEN a ELSE b

\* max(a, b, c)
Max3(a, b, c) == Max2(Max2(a, b), c)

-----------------------------------------------------------------------------
(* THRESHOLDS and check_thresholds                                         *)

THRESHOLDS ==
    [ temperature_high       |-> F(900),
      temperature_low        |-> F(20),
      gas_index_high         |-> F(400),
      vibration_critical     |-> F(8),
      vibration_warning      |-> F(5),
      humidity_high          |-> F(80),
      humidity_low           |-> F(20),
      power_consumption_high |-> F(50) ]

\* THRESHOLDS["temperature_high"] * 1.1.  In IEEE doubles 900 * 1.1 is
\* 990.0000000000001, one ulp above 990; no value of the hundredths grid lies
\* strictly between 990 and that number, so on the grid `t > 900 * 1.1` is
\* `t > 990.00`.
TemperatureCriticalLimit == (THRESHOLDS.temperature_high * 11) \div 10

Anomaly(type, title, severity) ==
    [type |-> type, title |-> title, severity |-> severity]

\* mutant: the escalation compares with >=
TemperatureCheck_CriticalAtLimit(reading) ==
    IF Truthy(reading.temperature)
       /\ reading.temperature[1] > THRESHOLDS.temperature_high
    THEN << Anomaly("threshold_breach", "High Temperature Alert",
                    IF reading.temperature[1] >= TemperatureCriticalLimit
                    THEN "critical" ELSE "warning") >>
    ELSE << >>

TemperatureCheck(reading) ==
    IF Truthy(reading.temperature)
       /\ reading.temperature[1] > THRESHOLDS.temperature_high
    THEN << Anomaly("threshold_breach", "High Temperature Alert",
                    IF reading.temperature[1] > TemperatureCriticalLimit
                    THEN "critical" ELSE "warning") >>
    ELSE << >>

GasCheck(reading) ==
    IF Truthy(reading.gas_index)
       /\ reading.gas_index[1] > THRESHOLDS.gas_index_high
    THEN << Anomaly("anomaly", "Elevated Gas Index", "warning") >>
    ELSE << >>

max_vibration(reading) ==
    Max3(OrZero(reading.vibration_x),
         OrZero(reading.vibration_y),
         OrZero(reading.vibration_z))

\* mutant: `if` where the code has `elif`
VibrationCheck_BothTiers(reading) ==
    (IF max_vibration(reading) > THRESHOLDS.vibration_critical
     THEN << Anomaly("maintenance", "Critical Vibration Detected", "critical") >>
     ELSE << >>)
    \o (IF max_vibration(reading) > THRESHOLDS.vibration_warning
        THEN << Anomaly("predictive", "Elevated Vibration Warning", "warning") >>
        ELSE << >>)

VibrationCheck(reading) ==
    IF max_vibration(reading) > THRESHOLDS.vibration_critical
    THEN << Anomaly("maintenance", "Critical Vibration Detected", "critical") >>
    ELSE IF max_vibration(reading) > THRESHOLDS.vibration_warning
    THEN << Anomaly("predictive", "Elevated Vibration Warning", "warning") >>
    ELSE << >>

\* mutant: a 10% overshoot escalates the power rule as it does temperature
PowerCheck_Escalates(reading) ==
    IF Truthy(reading.power_consumption)
       /\ reading.power_consumption[1] > THRESHOLDS.power_consumption_high
    THEN << Anomaly("efficiency", "High Power Consumption",
                    IF reading.power_consumption[1]
                          > (THRESHOLDS.power_consumption_high * 11) \div 10
                    THEN "warning" ELSE "info") >>
    ELSE << >>

PowerCheck(reading) ==
    IF Truthy(reading.power_consumption)
       /\ reading.power_consumption[1] > THRESHOLDS.power_consumption_high
    THEN << Anomaly("efficiency", "High Power Consumption", "info") >>
    ELSE << >>

\* mutant: the checks are chained with elif, the first hit ends the function
check_thresholds_FirstHitOnly(reading) ==
    IF TemperatureCheck(reading) # << >> THEN TemperatureCheck(reading)
    ELSE IF GasCheck(reading) # << >> THEN GasCheck(reading)
    ELSE IF VibrationCheck(reading) # << >> THEN VibrationCheck(reading)
    ELSE PowerCheck(reading)

check_thresholds(reading) ==
    TemperatureCheck(reading) \o GasCheck(reading)
        \o VibrationCheck(reading) \o PowerCheck(reading)

-----------------------------------------------------------------------------
(* The empty store and the idle request record                             *)

NoRequest == [op |-> "none"]

\* the worker processes that serve requests
Workers == {1, 2}

\* no worker is inside generate_signals_from_mock_data
NoSweeps == [w \in Workers |-> [pc |-> "idle"]]

NotCalled == [call |-> "none"]

\* the devices of seed.py (one per factory), all active, never seen
SeedDevices ==
    [ id \in {1, 2} |->
        [ id         |-> id,
          device_id  |-> IF id = 1 THEN "ESP32-SF-001" ELSE "ESP32-CP-001",
          factory_id |-> id,
          is_active  |-> TRUE,
          last_seen  |-> None ] ]

StoreIdle ==
    /\ now = 0
    /\ devices = SeedDevices
    /\ readings = << >>
    /\ signals = << >>
    /\ last = NoRequest
    /\ sweeps = NoSweeps

-----------------------------------------------------------------------------
(* SpecEval: check_thresholds as a pure function of one reading            *)

TemperatureInputs ==
    { None, Some(-500), Some(0), Some(F(850)), Some(F(900)), Some(F(900) + 1),
      Some(92550), Some(F(990) - 1), Some(F(990)), Some(F(990) + 1),
      Some(F(1500)) }

GasInputs == { None, Some(0), Some(F(400)), Some(F(400) + 1), Some(F(5000)) }

VibrationInputs ==
    { None, Some(-F(9)), Some(0), Some(F(5)), Some(F(5) + 1), Some(F(8)),
      Some(F(8) + 1) }

PowerInputs == { None, Some(0), Some(F(50)), Some(F(50) + 1), Some(F(900)) }

EvalInputs ==
    [ temperature       : TemperatureInputs,
      gas_index         : GasInputs,
      vibration_x       : VibrationInputs,
      vibration_y       : VibrationInputs,
      vibration_z       : VibrationInputs,
      power_consumption : PowerInputs ]

InitEval ==
    /\ StoreIdle
    /\ evalReading \in EvalInputs
    /\ evalResult = NotCalled

Evaluate ==
    /\ evalResult = NotCalled
    /\ evalResult' = [call |-> "check_thresholds",
                      anomalies |-> check_thresholds(evalReading)]
    /\ UNCHANGED <<now, devices, readings, signals, last, evalReading, sweeps>>

NextEval == Evaluate

SpecEval == InitEval /\ [][NextEval]_vars

-----------------------------------------------------------------------------
(* The store and its callers                                               *)

\* bounds of the model
MaxTime == 1

MaxReadings == 1

MaxSignals == 3

MaxBatch == 1

Times == 0..MaxTime

Min2(a, b) == IF a <= b THEN a ELSE b

\* the first n rows of a query result: .limit(n)
Limit(rows, n) == SubSeq(rows, 1, Min2(Len(rows), n))

\* models.UserRole and the users of seed.py; factory_id is nullable
Users ==
    { [role |-> "admin",         factory_id |-> None],
      [role |-> "factory_owner", factory_id |-> Some(1)],
      [role |-> "operator",      factory_id |-> Some(2)] }

\* `not factory_id` on an Optional[int]
Falsy(x) == x = None \/ x[1] = 0

\* channel values of the readings sent to the simulator
Channels(t, g, vx, vy, vz, h, p, pw) ==
    [ temperature |-> t, gas_index |-> g, vibration_x |-> vx, vibration_y |-> vy,
      vibration_z |-> vz, humidity |-> h, pressure |-> p, power_consumption |-> pw ]

Nominal ==
    Channels(Some(F(850)), Some(F(200)), Some(F(1)), Some(F(1)), Some(F(1)),
             Some(F(50)), Some(F(1000)), Some(F(30)))

\* temperature 925.5, everything else nominal: one rule
Hot ==
    Channels(Some(92550), Some(F(200)), Some(F(1)), Some(F(1)), Some(F(1)),
             Some(F(50)), Some(F(1000)), Some(F(30)))

\* temperature above 990 and one axis above 8.0: two rules
HotShaking ==
    Channels(Some(F(995)), Some(F(200)), Some(F(1)), Some(850), None,
             Some(F(50)), Some(F(1000)), Some(F(30)))

\* every numeric channel absent
Absent == Channels(None, None, None, None, None, None, None, None)

ChannelInputs == {Nominal, Hot, HotShaking}

\* SimulatorReading: device reference, optional timestamp, channels
SimulatorReadings ==
    { [device_id |-> d, timestamp |-> ts, channels |-> c] :
        d \in {"ESP32-SF-001", "ESP32-CP-001", "ESP32-XX-404"},
        ts \in {None} \cup {Some(t) : t \in Times},
        c \in ChannelInputs }

\* SimulatorBatch.readings: the batches of at most n readings
Batches(n) == UNION { [1..k -> SimulatorReadings] : k \in 1..n }

\* db.query(models.Device).filter(device_id == ref).first()
DeviceByRef(ref) == {id \in DOMAIN devices : devices[id].device_id = ref}

\* models.SensorReading(device_id=device.id, timestamp=timestamp, ...)
SensorReading(device, timestamp, c) ==
    [ device_id |-> device, timestamp |-> timestamp,
      temperature |-> c.temperature, gas_index |-> c.gas_index,
      vibration_x |-> c.vibration_x, vibration_y |-> c.vibration_y,
      vibration_z |-> c.vibration_z, humidity |-> c.humidity,
      pressure |-> c.pressure, power_consumption |-> c.power_consumption ]

\* one turn of the loop of simulate_batch_data: st is the loop state
\* [devices, readings, ingested_count, errors]
IngestOne(st, user, reading) ==
    LET found == DeviceByRef(reading.device_id) IN
    IF found = {}
    THEN [st EXCEPT !.errors = Append(@, [device_id |-> reading.device_id,
                                          error |-> "Device not found"])]
    ELSE
      LET id == CHOOSE i \in found : TRUE IN
      IF user.role # "admin" /\ Some(st.devices[id].factory_id) # user.factory_id
      THEN [st EXCEPT !.errors = Append(@, [device_id |-> reading.device_id,
                                            error |-> "Not authorized for this device"])]
      ELSE
        LET timestamp == IF reading.timestamp # None THEN reading.timestamp[1] ELSE now IN
        [st EXCEPT !.readings = Append(@, SensorReading(id, timestamp, reading.channels)),
                   !.devices[id].last_seen = Some(timestamp),
                   !.ingested_count = @ + 1]

RECURSIVE IngestLoop_StopsAtError(_, _, _, _)
IngestLoop_StopsAtError(st, user, batch, i) ==
    IF i > Len(batch) \/ st.errors # << >> THEN st
    ELSE IngestLoop_StopsAtError(IngestOne(st, user, batch[i]), user, batch, i + 1)
RECURSIVE IngestLoop(_, _, _, _)
IngestLoop(st, user, batch, i) ==
    IF i > Len(batch) THEN st
    ELSE IngestLoop(IngestOne(st, user, batch[i]), user, batch, i + 1)

\* POST /simulator/ingest-batch
simulate_batch_data(user, batch) ==
    IF user.role \notin {"admin", "factory_owner"}
    THEN /\ last' = [op |-> "simulate_batch_data", status_code |-> 403]
         /\ UNCHANGED <<now, devices, readings, signals, evalReading, evalResult, sweeps>>
    ELSE
      LET st == IngestLoop([devices |-> devices, readings |-> readings,
                            ingested_count |-> 0, errors |-> << >>], user, batch, 1)
      IN /\ devices' = st.devices
         /\ readings' = st.readings
         /\ last' = [op |-> "simulate_batch_data", status_code |-> 201,
                     ingested_count |-> st.ingested_count,
                     total_readings |-> Len(batch),
                     errors |-> st.errors]
         /\ UNCHANGED <<now, signals, evalReading, evalResult, sweeps>>

\* the clock advances between requests
Tick ==
    /\ now < MaxTime
    /\ now' = now + 1
    /\ UNCHANGED <<devices, readings, signals, last, evalReading, evalResult, sweeps>>

-----------------------------------------------------------------------------
(* services/gemini.py: the AI collaborator                                 *)

\* What one call of gemini_service.analyze_anomaly meets:
\*   unconfigured  settings.GEMINI_API_URL is not set: nothing is sent
\*   failed        the POST raised, timed out, or answered non-200 / no text
\*   not_json      the answer text is not parseable JSON
\*   json          the answer text parses; value is the parsed value: a list,
\*                 number or string (is_object FALSE), or an object with
\*                 anomaly_detected and severity (severity None: key missing)
JsonObject(anomaly_detected, severity) ==
    [is_object |-> TRUE, anomaly_detected |-> anomaly_detected, severity |-> severity]

AIReplies ==
    { [how |-> "unconfigured"], [how |-> "failed"], [how |-> "not_json"],
      [how |-> "json", value |-> [is_object |-> FALSE]],
      [how |-> "json", value |-> JsonObject(FALSE, Some("info"))],
      [how |-> "json", value |-> JsonObject(TRUE, Some("warning"))],
      [how |-> "json", value |-> JsonObject(TRUE, Some("severe"))],
      [how |-> "json", value |-> JsonObject(TRUE, None)] }

\* generate_insight sends the POST unless `not self.base_url`
Posts(reply) == reply.how # "unconfigured"

\* generate_insight: the text answered, None when unconfigured or on any failure
generate_insight(reply) ==
    IF reply.how \in {"unconfigured", "failed"} THEN None ELSE Some(reply)

\* mutant: the fallback dict for unparseable text reports an anomaly
analyze_anomaly_FallbackIsAnomaly(reply) ==
    LET response == generate_insight(reply) IN
    IF response = None THEN None
    ELSE IF reply.how = "json" THEN Some(reply.value)
    ELSE Some(JsonObject(TRUE, Some("info")))

\* analyze_anomaly: None, the parsed value, or the fallback dict for
\* unparseable text (anomaly_detected False, the raw text as recommendation)
analyze_anomaly(reply) ==
    LET response == generate_insight(reply) IN
    IF response = None THEN None
    ELSE IF reply.how = "json" THEN Some(reply.value)
    ELSE Some(JsonObject(FALSE, Some("info")))

\* models.AlertSeverity
AlertSeverity == {"info", "warning", "critical"}

\* models.SignalStatus
SignalStatus == {"new", "processing", "completed", "failed"}

-----------------------------------------------------------------------------
(* process_signals_for_reading                                             *)

\* mutant: the factory is taken from the device's row id
RuleSignal_FactoryFromRowId(device, reading, anomaly, status, processed_at, created_by) ==
    [ device_id |-> device.id, factory_id |-> device.id,
      signal_type |-> anomaly.type, status |-> status, title |-> anomaly.title,
      severity |-> anomaly.severity, analysis_result |-> None,
      confidence_score |-> 95, detected_at |-> reading.timestamp,
      processed_at |-> processed_at, created_by |-> created_by ]

\* models.Signal(...) as built for a threshold anomaly; created_by records
\* the function that built the row
RuleSignal(device, reading, anomaly, status, processed_at, created_by) ==
    [ device_id |-> device.id, factory_id |-> device.factory_id,
      signal_type |-> anomaly.type, status |-> status, title |-> anomaly.title,
      severity |-> anomaly.severity, analysis_result |-> None,
      confidence_score |-> 95, detected_at |-> reading.timestamp,
      processed_at |-> processed_at, created_by |-> created_by ]

\* models.Signal(...) as built from an AI result
\* mutant: the AI signal gets the confidence of a rule-based one
AISignal_RuleConfidence(device, reading, ai_result) ==
    [ device_id |-> device.id, factory_id |-> device.factory_id,
      signal_type |-> "anomaly", status |-> "completed", title |-> "AI Detected: Anomaly",
      severity |-> IF ai_result.severity = None THEN "info" ELSE ai_result.severity[1],
      analysis_result |-> Some(ai_result),
      confidence_score |-> 95, detected_at |-> reading.timestamp,
      processed_at |-> Some(now), created_by |-> "process_signals_for_reading" ]

AISignal(device, reading, ai_result) ==
    [ device_id |-> device.id, factory_id |-> device.factory_id,
      signal_type |-> "anomaly", status |-> "completed", title |-> "AI Detected: Anomaly",
      severity |-> IF ai_result.severity = None THEN "info" ELSE ai_result.severity[1],
      analysis_result |-> Some(ai_result),
      confidence_score |-> 75, detected_at |-> reading.timestamp,
      processed_at |-> Some(now), created_by |-> "process_signals_for_reading" ]

\* mutant: the rule signals are left in state NEW, unprocessed
ThresholdSignals_LeftNew(device, reading) ==
    LET anomalies == check_thresholds(reading) IN
    [ i \in 1..Len(anomalies) |->
        RuleSignal(device, reading, anomalies[i], "new", None,
                   "process_signals_for_reading") ]

\* step 1: one COMPLETED signal per threshold anomaly
ThresholdSignals(device, reading) ==
    LET anomalies == check_thresholds(reading) IN
    [ i \in 1..Len(anomalies) |->
        RuleSignal(device, reading, anomalies[i], "completed", Some(now),
                   "process_signals_for_reading") ]

\* mutant: step 2 runs whenever use_ai is set
CallsAI_WheneverEnabled(reading, use_ai) == use_ai

\* step 2 runs: `if use_ai and len(threshold_anomalies) == 0`
CallsAI(reading, use_ai) == use_ai /\ Len(check_thresholds(reading)) = 0

\* mutant: an AI severity that is no AlertSeverity is replaced by "info"
AISignals_AnySeverityStored(device, reading, reply) ==
    LET ai_result == analyze_anomaly(reply) IN
    IF ai_result = None THEN << >>
    ELSE IF ~ai_result[1].is_object THEN << >>
    ELSE IF ~ai_result[1].anomaly_detected THEN << >>
    ELSE << AISignal(device, reading, ai_result[1]) >>

AISignals_UncheckedSeverity(device, reading, reply) ==
    LET ai_result == analyze_anomaly(reply) IN
    IF ai_result = None THEN << >>
    ELSE IF ~ai_result[1].is_object THEN << >>
    ELSE IF ~ai_result[1].anomaly_detected THEN << >>
    ELSE IF ai_result[1].severity # None /\ ai_result[1].severity[1] \notin AlertSeverity
    THEN << AISignal(device, reading, [ai_result[1] EXCEPT !.severity = None]) >>
    ELSE << AISignal(device, reading, ai_result[1]) >>

\* step 2, inside the try: the signal added, if any.  A parsed value that is
\* no object has no .get, and AlertSeverity(...) rejects a string outside the
\* enum: both raise, the except clause swallows it, nothing was added.
AISignals(device, reading, reply) ==
    LET ai_result == analyze_anomaly(reply) IN
    IF ai_result = None THEN << >>
    ELSE IF ~ai_result[1].is_object THEN << >>
    ELSE IF ~ai_result[1].anomaly_detected THEN << >>
    ELSE IF ai_result[1].severity # None /\ ai_result[1].severity[1] \notin AlertSeverity
    THEN << >>
    ELSE << AISignal(device, reading, ai_result[1]) >>

\* the signals created for one reading, and whether the collaborator was called
process_signals_for_reading(reading, device, use_ai, reply) ==
    LET rule == ThresholdSignals(device, reading)
        ai   == IF CallsAI(reading, use_ai) THEN AISignals(device, reading, reply)
                ELSE << >>
    IN  [ signals_created |-> rule \o ai,
          rule_signals |-> Len(rule),
          ai_called |-> CallsAI(reading, use_ai),
          ai_signals |-> Len(ai) ]

-----------------------------------------------------------------------------
(* POST /signals/analyze                                                   *)

\* .limit(10) of the readings query of analyze_recent_data
AnalyzeLimit == 10

\* the rows of a set of reading ids, .order_by(desc(timestamp)); rows with
\* equal timestamps come in id order
RECURSIVE OrderByTimestampDesc(_)
OrderByTimestampDesc(ids) ==
    IF ids = {} THEN << >>
    ELSE LET first == CHOOSE i \in ids :
                        \A j \in ids :
                            \/ readings[i].timestamp > readings[j].timestamp
                            \/ readings[i].timestamp = readings[j].timestamp /\ i <= j
         IN <<first>> \o OrderByTimestampDesc(ids \ {first})

\* ids as a sequence in increasing order: the rows of a query without order_by
RECURSIVE InIdOrder(_)
InIdOrder(ids) ==
    IF ids = {} THEN << >>
    ELSE LET first == CHOOSE i \in ids : \A j \in ids : i <= j
         IN <<first>> \o InIdOrder(ids \ {first})

\* the active devices of a factory
ActiveDevices(fid) ==
    InIdOrder({id \in DOMAIN devices :
                 devices[id].factory_id = fid /\ devices[id].is_active})

\* the recent readings of a device, newest first, at most AnalyzeLimit
RecentReadings(device, cutoff_time) ==
    Limit(OrderByTimestampDesc({i \in DOMAIN readings :
                                  /\ readings[i].device_id = device
                                  /\ readings[i].timestamp >= cutoff_time}),
          AnalyzeLimit)

\* the reading ids the sweep goes through, device by device
RECURSIVE AnalyzeWorklist(_, _)
AnalyzeWorklist(devs, cutoff_time) ==
    IF devs = << >> THEN << >>
    ELSE RecentReadings(Head(devs), cutoff_time)
            \o AnalyzeWorklist(Tail(devs), cutoff_time)

\* the per-reading results of the sweep, in order
AnalyzeResults(work, use_ai, replies) ==
    [ k \in 1..Len(work) |->
        process_signals_for_reading(readings[work[k]],
                                    devices[readings[work[k]].device_id],
                                    use_ai, replies[work[k]]) ]

RECURSIVE Flatten(_)
Flatten(seqs) == IF seqs = << >> THEN << >> ELSE Head(seqs) \o Flatten(Tail(seqs))

\* `if current_user.role != ADMIN: factory_id = current_user.factory_id`
ScopeFactory(user, factory_param) ==
    IF user.role # "admin" THEN user.factory_id ELSE factory_param

\* the readings of a sweep for which the collaborator is called
AnalyzeAsks(user, factory_param, hours, use_ai) ==
    LET factory_id == ScopeFactory(user, factory_param) IN
    IF Falsy(factory_id) THEN {}
    ELSE { i \in Range(AnalyzeWorklist(ActiveDevices(factory_id[1]), now - hours)) :
             CallsAI(readings[i], use_ai) }

analyze_recent_data(user, factory_param, hours, use_ai, replies) ==
    LET factory_id == ScopeFactory(user, factory_param) IN
    IF Falsy(factory_id)
    THEN /\ last' = [op |-> "analyze_recent_data", status_code |-> 400]
         /\ UNCHANGED <<now, devices, readings, signals, evalReading, evalResult, sweeps>>
    ELSE
      LET devs == ActiveDevices(factory_id[1]) IN
      IF devs = << >>
      THEN /\ last' = [op |-> "analyze_recent_data", status_code |-> 201,
                       status |-> "no_devices"]
           /\ UNCHANGED <<now, devices, readings, signals, evalReading, evalResult, sweeps>>
      ELSE
        LET work    == AnalyzeWorklist(devs, now - hours)
            results == AnalyzeResults(work, use_ai, replies)
            created == Flatten([k \in 1..Len(work) |-> results[k].signals_created])
        IN /\ signals' = signals \o created
           /\ last' = [op |-> "analyze_recent_data", status_code |-> 201,
                       status |-> "success", factory_id |-> factory_id[1],
                       hours |-> hours, use_ai |-> use_ai,
                       trace |-> [k \in 1..Len(work) |->
                                    [rule_signals |-> results[k].rule_signals,
                                     ai_called |-> results[k].ai_called,
                                     ai_signals |-> results[k].ai_signals]],
                       total_signals_created |-> Len(created)]
           /\ UNCHANGED <<now, devices, readings, evalReading, evalResult, sweeps>>

-----------------------------------------------------------------------------
(* POST /signals/{signal_id}/acknowledge                                   *)

\* mutant: no access check
acknowledge_signal_NoAccessCheck(user, signal_id) ==
    IF signal_id \notin DOMAIN signals
    THEN /\ last' = [op |-> "acknowledge_signal", status_code |-> 404]
         /\ UNCHANGED <<now, devices, readings, signals, evalReading, evalResult, sweeps>>
    ELSE /\ signals' = [signals EXCEPT ![signal_id].status = "completed",
                                       ![signal_id].processed_at = Some(now)]
         /\ last' = [op |-> "acknowledge_signal", status_code |-> 200,
                     signal_id |-> signal_id,
                     prior |-> [status |-> signals[signal_id].status,
                                processed_at |-> signals[signal_id].processed_at]]
         /\ UNCHANGED <<now, devices, readings, evalReading, evalResult, sweeps>>

\* mutant: a signal already completed is left as it is
acknowledge_signal_SkipsCompleted(user, signal_id) ==
    IF signal_id \notin DOMAIN signals
    THEN /\ last' = [op |-> "acknowledge_signal", status_code |-> 404]
         /\ UNCHANGED <<now, devices, readings, signals, evalReading, evalResult, sweeps>>
    ELSE IF user.role # "admin" /\ Some(signals[signal_id].factory_id) # user.factory_id
    THEN /\ last' = [op |-> "acknowledge_signal", status_code |-> 403]
         /\ UNCHANGED <<now, devices, readings, signals, evalReading, evalResult, sweeps>>
    ELSE /\ signals' = IF signals[signal_id].status = "completed" THEN signals
                       ELSE [signals EXCEPT ![signal_id].status = "completed",
                                            ![signal_id].processed_at = Some(now)]
         /\ last' = [op |-> "acknowledge_signal", status_code |-> 200,
                     signal_id |-> signal_id,
                     prior |-> [status |-> signals[signal_id].status,
                                processed_at |-> signals[signal_id].processed_at]]
         /\ UNCHANGED <<now, devices, readings, evalReading, evalResult, sweeps>>

\* mutant: the status written is PROCESSING
acknowledge_signal_SetsProcessing(user, signal_id) ==
    IF signal_id \notin DOMAIN signals
    THEN /\ last' = [op |-> "acknowledge_signal", status_code |-> 404]
         /\ UNCHANGED <<now, devices, readings, signals, evalReading, evalResult, sweeps>>
    ELSE IF user.role # "admin" /\ Some(signals[signal_id].factory_id) # user.factory_id
    THEN /\ last' = [op |-> "acknowledge_signal", status_code |-> 403]
         /\ UNCHANGED <<now, devices, readings, signals, evalReading, evalResult, sweeps>>
    ELSE /\ signals' = [signals EXCEPT ![signal_id].status = "processing",
                                       ![signal_id].processed_at = Some(now)]
         /\ last' = [op |-> "acknowledge_signal", status_code |-> 200,
                     signal_id |-> signal_id,
                     prior |-> [status |-> signals[signal_id].status,
                                processed_at |-> signals[signal_id].processed_at]]
         /\ UNCHANGED <<now, devices, readings, evalReading, evalResult, sweeps>>

acknowledge_signal(user, signal_id) ==
    IF signal_id \notin DOMAIN signals
    THEN /\ last' = [op |-> "acknowledge_signal", status_code |-> 404]
         /\ UNCHANGED <<now, devices, readings, signals, evalReading, evalResult, sweeps>>
    ELSE IF user.role # "admin" /\ Some(signals[signal_id].factory_id) # user.factory_id
    THEN /\ last' = [op |-> "acknowledge_signal", status_code |-> 403]
         /\ UNCHANGED <<now, devices, readings, signals, evalReading, evalResult, sweeps>>
    ELSE /\ signals' = [signals EXCEPT ![signal_id].status = "completed",
                                       ![signal_id].processed_at = Some(now)]
         /\ last' = [op |-> "acknowledge_signal", status_code |-> 200,
                     signal_id |-> signal_id,
                     prior |-> [status |-> signals[signal_id].status,
                                processed_at |-> signals[signal_id].processed_at]]
         /\ UNCHANGED <<now, devices, readings, evalReading, evalResult, sweeps>>

-----------------------------------------------------------------------------
(* POST /signals/generate-from-mock                                        *)

\* .limit(50) of the readings query of generate_signals_from_mock_data
MockLimit == 50

\* the rows of table factories (seed.py creates two)
Factories == <<1, 2>>

\* What a query of the request's session sees: the committed rows and the
\* rows the session itself has added.  (The session factory is configured in
\* app/database.py.)
SessionSees(stored, pending) == stored \o pending

\* mutant: the filter compares the title with the wrong column
Existing_WrongColumn(visible, device, title, detected_at) ==
    \E i \in DOMAIN visible :
        /\ visible[i].device_id = device
        /\ visible[i].signal_type = title
        /\ visible[i].detected_at = detected_at

\* `existing`: a visible signal with this device, title and detected_at
Existing(visible, device, title, detected_at) ==
    \E i \in DOMAIN visible :
        /\ visible[i].device_id = device
        /\ visible[i].title = title
        /\ visible[i].detected_at = detected_at

\* the loop over the anomalies of one reading; pending are the signals added
\* so far by this request
RECURSIVE MockAnomalies(_, _, _, _, _)
MockAnomalies(pending, device, reading, anomalies, k) ==
    IF k > Len(anomalies) THEN pending
    ELSE MockAnomalies(
           IF Existing(SessionSees(signals, pending), device.id,
                       anomalies[k].title, reading.timestamp)
           THEN pending
           ELSE Append(pending,
                       RuleSignal(device, reading, anomalies[k], "new", None,
                                  "generate_signals_from_mock_data")),
           device, reading, anomalies, k + 1)

\* the loop over the latest readings of the devices, in worklist order
RECURSIVE MockReadings(_, _, _)
MockReadings(pending, work, k) ==
    IF k > Len(work) THEN pending
    ELSE MockReadings(
           MockAnomalies(pending, devices[readings[work[k]].device_id],
                         readings[work[k]], check_thresholds(readings[work[k]]), 1),
           work, k + 1)

\* the latest readings of a device, newest first, at most MockLimit
LatestReadings(device) ==
    Limit(OrderByTimestampDesc({i \in DOMAIN readings : readings[i].device_id = device}),
          MockLimit)

RECURSIVE MockWorklist(_)
MockWorklist(devs) ==
    IF devs = << >> THEN << >>
    ELSE LatestReadings(Head(devs)) \o MockWorklist(Tail(devs))

\* the loop over the factories: [added, results]
RECURSIVE MockFactories(_, _, _)
MockFactories(st, factory_ids, k) ==
    IF k > Len(factory_ids) THEN st
    ELSE LET added == MockReadings(st.added,
                                   MockWorklist(ActiveDevices(factory_ids[k])), 1)
         IN MockFactories(
              [added |-> added,
               results |-> Append(st.results,
                                  [factory_id |-> factory_ids[k],
                                   signals_created |-> Len(added) - Len(st.added)])],
              factory_ids, k + 1)

generate_signals_from_mock_data(user, factory_param) ==
    IF user.role \notin {"admin", "factory_owner"}
    THEN /\ last' = [op |-> "generate_signals_from_mock_data", status_code |-> 403]
         /\ UNCHANGED <<now, devices, readings, signals, evalReading, evalResult, sweeps>>
    ELSE
      LET factory_id  == ScopeFactory(user, factory_param)
          factory_ids == IF Falsy(factory_id) THEN Factories ELSE <<factory_id[1]>>
          st          == MockFactories([added |-> << >>, results |-> << >>], factory_ids, 1)
      IN /\ signals' = signals \o st.added
         /\ last' = [op |-> "generate_signals_from_mock_data", status_code |-> 200,
                     factory_ids |-> factory_ids,
                     total_signals_created |-> Len(st.added),
                     results |-> st.results]
         /\ UNCHANGED <<now, devices, readings, evalReading, evalResult, sweeps>>

-----------------------------------------------------------------------------
(* Spec: the store under every request                                     *)

\* Rows table signals may hold when the service starts.  models.SignalStatus
\* admits four states and no handler writes "processing" or "failed", so rows
\* in those states are there from the start or not at all.
StoredSignals ==
    { [ device_id |-> d, factory_id |-> d, signal_type |-> "threshold_breach",
        status |-> st, title |-> "High Temperature Alert", severity |-> "warning",
        analysis_result |-> None, confidence_score |-> 95, detected_at |-> 0,
        processed_at |-> IF st \in {"completed", "failed"} THEN Some(0) ELSE None,
        created_by |-> "stored" ] :
        d \in {1}, st \in SignalStatus }

EvalIdle ==
    /\ evalReading = Absent
    /\ evalResult = NotCalled

Init ==
    /\ now = 0
    /\ devices = SeedDevices
    /\ readings = << >>
    /\ signals \in {<< >>} \cup {<<s>> : s \in StoredSignals}
    /\ last = NoRequest
    /\ sweeps = NoSweeps
    /\ EvalIdle

\* the query parameter factory_id; a non-admin caller's value is overwritten
\* with the caller's own factory, so only admins are given a choice
FactoryParams(user) == IF user.role = "admin" THEN {None, Some(1), Some(2)} ELSE {None}

HoursInputs == {0, 1}

\* the tables are kept within MaxReadings and MaxSignals rows
IngestBatch ==
    \E user \in Users, batch \in Batches(MaxBatch) :
        /\ Len(readings) + Len(batch) <= MaxReadings
        /\ simulate_batch_data(user, batch)

\* the replies met during a sweep
SweepReplies ==
    { [how |-> "failed"],
      [how |-> "json", value |-> JsonObject(TRUE, Some("warning"))],
      [how |-> "json", value |-> JsonObject(TRUE, Some("severe"))] }

\* one reply for each reading the sweep hands to the collaborator
Analyze ==
    \E user \in Users, hours \in HoursInputs, use_ai \in BOOLEAN :
      \E factory_param \in FactoryParams(user) :
        \E replies \in [AnalyzeAsks(user, factory_param, hours, use_ai) -> SweepReplies] :
          /\ analyze_recent_data(user, factory_param, hours, use_ai, replies)
          /\ Len(signals') <= MaxSignals

Acknowledge ==
    \E user \in Users, signal_id \in 1..(MaxSignals + 1) : acknowledge_signal(user, signal_id)

MockSweep ==
    \E user \in Users :
      \E factory_param \in FactoryParams(user) :
        /\ generate_signals_from_mock_data(user, factory_param)
        /\ Len(signals') <= MaxSignals

Next == Tick \/ IngestBatch \/ Analyze \/ Acknowledge \/ MockSweep

Spec == Init /\ [][Next]_vars

-----------------------------------------------------------------------------
(* SpecProcess: process_signals_for_reading on one reading                 *)

ProcessInputs ==
    [ temperature       : {None, Some(0), Some(F(900)), Some(F(900) + 1), Some(F(990) + 1)},
      gas_index         : {None, Some(F(400)), Some(F(400) + 1)},
      vibration_x       : {None, Some(F(5)), Some(F(5) + 1), Some(F(8) + 1)},
      vibration_y       : {None, Some(F(1))},
      vibration_z       : {None},
      humidity          : {None},
      pressure          : {None},
      power_consumption : {None, Some(F(50)), Some(F(50) + 1)} ]

InitProcess ==
    /\ StoreIdle
    /\ evalReading \in ProcessInputs
    /\ evalResult = NotCalled

\* the reading is a row of device 1 taken now; db.add and db.commit put the
\* created signals in the table
Process ==
    \E use_ai \in BOOLEAN, reply \in AIReplies :
        LET result == process_signals_for_reading(SensorReading(1, now, evalReading),
                                                  devices[1], use_ai, reply)
        IN /\ evalResult = NotCalled
           /\ evalResult' = [call |-> "process_signals_for_reading",
                             use_ai |-> use_ai, reply |-> reply, result |-> result]
           /\ signals' = signals \o result.signals_created
           /\ UNCHANGED <<now, devices, readings, last, evalReading, sweeps>>

NextProcess == Process

SpecProcess == InitProcess /\ [][NextProcess]_vars

-----------------------------------------------------------------------------
(* SpecMock: the mock-data sweep alone, on an initially empty signals table *)

MaxMockReadings == 2

InitMock ==
    /\ StoreIdle
    /\ EvalIdle

IngestMock ==
    \E user \in Users, batch \in Batches(MaxBatch) :
        /\ Len(readings) + Len(batch) <= MaxMockReadings
        /\ simulate_batch_data(user, batch)

NextMock == IngestMock \/ MockSweep

SpecMock == InitMock /\ [][NextMock]_vars

-----------------------------------------------------------------------------
(* SpecRace: two workers inside generate_signals_from_mock_data at once.   *)
(* Each worker has its own session; a step is one database statement.      *)
(* Tables devices and sensor_readings do not change while the sweeps run.  *)

MaxRaceReadings == 2

RaceRows == { SensorReading(d, 0, c) : d \in {1, 2}, c \in ChannelInputs }

RaceReadings ==
    UNION { [1..n -> RaceRows] : n \in 1..MaxRaceReadings }

InitRace ==
    /\ now = 0
    /\ devices = SeedDevices
    /\ readings \in RaceReadings
    /\ signals = << >>
    /\ last = NoRequest
    /\ sweeps = NoSweeps
    /\ EvalIdle

SweepName(w) == IF w = 1 THEN "generate_signals_from_mock_data@1"
                ELSE "generate_signals_from_mock_data@2"

\* the (reading, anomaly) pairs the loops of one factory visit, in order
RECURSIVE SweepItems(_)
SweepItems(work) ==
    IF work = << >> THEN << >>
    ELSE LET anomalies == check_thresholds(readings[Head(work)]) IN
         [ i \in 1..Len(anomalies) |-> [reading |-> Head(work), anomaly |-> anomalies[i]] ]
            \o SweepItems(Tail(work))

\* where the loops stand once `items` are left for this factory
AfterItem(items) == IF items = << >> THEN "commit" ELSE "check"

\* the request arrives: role check and choice of the factories
SweepBegin(w) ==
    \E user \in Users :
      \E factory_param \in FactoryParams(user) :
        /\ sweeps[w].pc = "idle"
        /\ IF user.role \notin {"admin", "factory_owner"}
           THEN /\ sweeps' = [sweeps EXCEPT ![w] = [pc |-> "done"]]
                /\ last' = [op |-> "generate_signals_from_mock_data", status_code |-> 403]
           ELSE LET factory_id == ScopeFactory(user, factory_param) IN
                /\ sweeps' = [sweeps EXCEPT ![w] =
                                [pc |-> "factory",
                                 factory_ids |-> IF Falsy(factory_id) THEN Factories
                                                 ELSE <<factory_id[1]>>,
                                 k |-> 1, items |-> << >>, pending |-> << >>,
                                 total_signals |-> 0, results |-> << >>]]
                /\ UNCHANGED last
        /\ UNCHANGED <<now, devices, readings, signals, evalReading, evalResult>>

\* `for fid in factory_ids`: the next factory's devices and readings, or the
\* return once the list is exhausted
SweepFactory(w) ==
    /\ sweeps[w].pc = "factory"
    /\ LET sw == sweeps[w] IN
       IF sw.k > Len(sw.factory_ids)
       THEN /\ sweeps' = [sweeps EXCEPT ![w] = [pc |-> "done"]]
            /\ last' = [op |-> "generate_signals_from_mock_data", status_code |-> 200,
                        factory_ids |-> sw.factory_ids,
                        total_signals_created |-> sw.total_signals,
                        results |-> sw.results]
       ELSE LET items == SweepItems(MockWorklist(ActiveDevices(sw.factory_ids[sw.k]))) IN
            /\ sweeps' = [sweeps EXCEPT ![w].items = items, ![w].pc = AfterItem(items)]
            /\ UNCHANGED last
    /\ UNCHANGED <<now, devices, readings, signals, evalReading, evalResult>>

\* mutant: the `existing` query sees only the committed rows, not the rows
\* this sweep has added
SweepCheck_CommittedOnly(w) ==
    /\ sweeps[w].pc = "check"
    /\ LET sw   == sweeps[w]
           item == Head(sw.items)
       IN IF Existing(signals, readings[item.reading].device_id,
                      item.anomaly.title, readings[item.reading].timestamp)
          THEN sweeps' = [sweeps EXCEPT ![w].items = Tail(sw.items),
                                        ![w].pc = AfterItem(Tail(sw.items))]
          ELSE sweeps' = [sweeps EXCEPT ![w].pc = "add"]
    /\ UNCHANGED <<now, devices, readings, signals, last, evalReading, evalResult>>

\* the `existing` query of the current anomaly
SweepCheck(w) ==
    /\ sweeps[w].pc = "check"
    /\ LET sw   == sweeps[w]
           item == Head(sw.items)
       IN IF Existing(SessionSees(signals, sw.pending), readings[item.reading].device_id,
                      item.anomaly.title, readings[item.reading].timestamp)
          THEN sweeps' = [sweeps EXCEPT ![w].items = Tail(sw.items),
                                        ![w].pc = AfterItem(Tail(sw.items))]
          ELSE sweeps' = [sweeps EXCEPT ![w].pc = "add"]
    /\ UNCHANGED <<now, devices, readings, signals, last, evalReading, evalResult>>

\* `if not existing:` db.add(signal)
SweepAdd(w) ==
    /\ sweeps[w].pc = "add"
    /\ LET sw   == sweeps[w]
           item == Head(sw.items)
       IN sweeps' = [sweeps EXCEPT
             ![w].pending = Append(sw.pending,
                                   RuleSignal(devices[readings[item.reading].device_id],
                                              readings[item.reading], item.anomaly,
                                              "new", None, SweepName(w))),
             ![w].items = Tail(sw.items),
             ![w].pc = AfterItem(Tail(sw.items))]
    /\ UNCHANGED <<now, devices, readings, signals, last, evalReading, evalResult>>

\* db.commit() at the end of one factory
SweepCommit(w) ==
    /\ sweeps[w].pc = "commit"
    /\ LET sw == sweeps[w] IN
       /\ signals' = signals \o sw.pending
       /\ sweeps' = [sweeps EXCEPT
             ![w].pending = << >>,
             ![w].total_signals = sw.total_signals + Len(sw.pending),
             ![w].results = Append(sw.results,
                                   [factory_id |-> sw.factory_ids[sw.k],
                                    signals_created |-> Len(sw.pending)]),
             ![w].k = sw.k + 1,
             ![w].pc = "factory"]
    /\ UNCHANGED <<now, devices, readings, last, evalReading, evalResult>>

NextRace ==
    \E w \in Workers :
        SweepBegin(w) \/ SweepFactory(w) \/ SweepCheck(w) \/ SweepAdd(w) \/ SweepCommit(w)

SpecRace == InitRace /\ [][NextRace]_vars

-----------------------------------------------------------------------------
(* SpecOrigins: every path that creates signals, over the devices of       *)
(* seed.py: the seed script, then the sweeps and acknowledge.              *)

MaxOriginReadings == 2

\* the three devices of seed.py: two in factory 1, one in factory 2
SeedDevices3 ==
    [ id \in {1, 2, 3} |->
        [ id         |-> id,
          device_id  |-> CASE id = 1 -> "ESP32-SF-001"
                           [] id = 2 -> "ESP32-SF-002"
                           [] id = 3 -> "ESP32-CP-001",
          factory_id |-> IF id = 3 THEN 2 ELSE 1,
          is_active  |-> TRUE,
          last_seen  |-> Some(0) ] ]

\* readings the seed script can draw: temperature 850 + up to 100, gas up to
\* 350 * 1.5, each axis up to 3.5 * 4, power below 45
SeedChannels ==
    { Hot,
      Channels(Some(F(860)), Some(F(450)), Some(F(2)), Some(F(2)), Some(F(2)),
               Some(F(50)), Some(F(1000)), Some(F(30))),
      Channels(Some(F(860)), Some(F(200)), Some(F(6)), Some(F(2)), Some(F(2)),
               Some(F(50)), Some(F(1000)), Some(F(30))) }

\* a signal of seed.py: status NEW, the confidence written next to the rule
SeedSignal(device, reading, anomaly, confidence_score) ==
    [ RuleSignal(device, reading, anomaly, "new", None, "generate_signals_for_reading")
        EXCEPT !.confidence_score = confidence_score ]

\* seed.py generate_signals_for_reading: temperature, gas and vibration
\* checks with the script's own THRESHOLDS (the same numbers); no power check
generate_signals_for_reading(reading, device) ==
    (IF Truthy(reading.temperature)
        /\ reading.temperature[1] > THRESHOLDS.temperature_high
     THEN << SeedSignal(device, reading,
                        Anomaly("threshold_breach", "High Temperature Alert",
                                IF reading.temperature[1] > TemperatureCriticalLimit
                                THEN "critical" ELSE "warning"), 95) >>
     ELSE << >>)
    \o (IF Truthy(reading.gas_index)
           /\ reading.gas_index[1] > THRESHOLDS.gas_index_high
        THEN << SeedSignal(device, reading,
                           Anomaly("anomaly", "Elevated Gas Index", "warning"), 90) >>
        ELSE << >>)
    \o (IF max_vibration(reading) > THRESHOLDS.vibration_critical
        THEN << SeedSignal(device, reading,
                           Anomaly("maintenance", "Critical Vibration Detected",
                                   "critical"), 95) >>
        ELSE IF max_vibration(reading) > THRESHOLDS.vibration_warning
        THEN << SeedSignal(device, reading,
                           Anomaly("predictive", "Elevated Vibration Warning",
                                   "warning"), 85) >>
        ELSE << >>)

InitOrigins ==
    /\ now = 0
    /\ devices = SeedDevices3
    /\ readings = << >>
    /\ signals = << >>
    /\ last = NoRequest
    /\ sweeps = NoSweeps
    /\ EvalIdle

\* seed_database, before any request is served: one reading of one device,
\* the devices taken in order, and its signals when the reading is a recent
\* injected anomaly
SeedReading ==
    \E device \in DOMAIN devices, c \in SeedChannels, is_anomaly \in BOOLEAN :
        LET reading == SensorReading(device, now, c) IN
        /\ last = NoRequest
        /\ Len(readings) < MaxOriginReadings
        /\ \A i \in DOMAIN readings : readings[i].device_id <= device
        /\ readings' = Append(readings, reading)
        /\ signals' = IF is_anomaly
                      THEN signals \o generate_signals_for_reading(reading, devices[device])
                      ELSE signals
        /\ Len(signals') <= MaxSignals
        /\ UNCHANGED <<now, devices, last, evalReading, evalResult, sweeps>>

\* POST /signals/analyze over the last hour; the collaborator, when asked,
\* reports an anomaly
OriginAnalyze ==
    \E user \in Users, use_ai \in BOOLEAN :
      \E factory_param \in FactoryParams(user) :
        /\ analyze_recent_data(user, factory_param, 1, use_ai,
              [ i \in AnalyzeAsks(user, factory_param, 1, use_ai) |->
                  [how |-> "json", value |-> JsonObject(TRUE, Some("warning"))] ])
        /\ Len(signals') <= MaxSignals

NextOrigins == SeedReading \/ OriginAnalyze \/ MockSweep \/ Acknowledge

SpecOrigins == InitOrigins /\ [][NextOrigins]_vars

-----------------------------------------------------------------------------
(* SpecSweep: one analyze_recent_data request over stored readings, the    *)
(* collaborator's behaviour for each reading fixed beforehand.             *)

MaxSweepReadings == 2

SweepRows == { SensorReading(d, 0, c) : d \in {1, 2}, c \in {Nominal, Hot} }

\* evalResult.replies[i]: what a call of analyze_anomaly about reading i meets
InitSweep ==
    /\ now = 0
    /\ devices = SeedDevices
    /\ readings \in [1..MaxSweepReadings -> SweepRows]
    /\ signals = << >>
    /\ last = NoRequest
    /\ sweeps = NoSweeps
    /\ evalReading = Absent
    /\ evalResult \in { [call |-> "analyze_anomaly", replies |-> r] :
                          r \in [1..MaxSweepReadings -> AIReplies] }

AnalyzeOnce ==
    \E user \in Users, hours \in HoursInputs, use_ai \in BOOLEAN :
      \E factory_param \in FactoryParams(user) :
        /\ last = NoRequest
        /\ analyze_recent_data(user, factory_param, hours, use_ai,
              [ i \in AnalyzeAsks(user, factory_param, hours, use_ai) |->
                  evalResult.replies[i] ])

NextSweep == AnalyzeOnce

SpecSweep == InitSweep /\ [][NextSweep]_vars

-----------------------------------------------------------------------------
(* SpecUptime: GET /devices/{device_id}/status.  In this specification the *)
(* clock and the reading timestamps count seconds.                         *)

\* timedelta(hours=24)
DaySeconds == 86400

\* the unit of date_trunc('minute', ...)
MinuteSeconds == 60

\* the five-minute interval of the uptime figure
IntervalSeconds == 300

\* total_intervals = 24 * 12
total_intervals == 288

\* the longest run of readings
MaxUptimeReadings == 288

\* readings of device 1 sent every `stride` seconds from `start` on
UptimeStrides == {20, MinuteSeconds, 120, IntervalSeconds, 600}

UptimeCounts == {1, 2, 3, 144, MaxUptimeReadings}

UptimeStarts == {0, 45, 3600}

UptimeRuns ==
    { [ i \in 1..n |-> SensorReading(1, start + stride * (i - 1), Nominal) ] :
        n \in UptimeCounts, stride \in UptimeStrides, start \in UptimeStarts }

InitUptime ==
    /\ now = DaySeconds
    /\ devices = SeedDevices
    /\ readings \in {<< >>} \cup UptimeRuns
    /\ signals = << >>
    /\ last = NoRequest
    /\ sweeps = NoSweeps
    /\ EvalIdle

\* func.date_trunc('minute', timestamp)
date_trunc_minute(timestamp) == timestamp - (timestamp % MinuteSeconds)

\* What the database makes of date_trunc('minute', timestamp) / 5:
\*   rejected    no `/` operator between a timestamp and an integer
\*               (PostgreSQL, the database of config.DATABASE_URL): the
\*               statement fails and the handler raises
\*   per_minute  the truncated timestamp is divided as a number: one value
\*               per minute
DivisionOutcomes == {"rejected", "per_minute"}

\* the rows the query filters: this device, timestamp >= last_24h
RecentOf(device_id) ==
    { i \in DOMAIN readings :
        /\ readings[i].device_id = device_id
        /\ readings[i].timestamp >= now - DaySeconds }

\* count(distinct(date_trunc('minute', timestamp) / 5)) where it evaluates
intervals_with_data(device_id) ==
    Cardinality({ date_trunc_minute(readings[i].timestamp) : i \in RecentOf(device_id) })

\* (intervals_with_data / total_intervals) * 100, in hundredths of a percent
UptimePercentage(intervals) == (intervals * 100 * 100) \div total_intervals

get_device_status(user, device_id, outcome) ==
    /\ last' =
         IF device_id \notin DOMAIN devices
         THEN [op |-> "get_device_status", device_id |-> device_id, status_code |-> 404]
         ELSE IF user.role # "admin" /\ Some(devices[device_id].factory_id) # user.factory_id
         THEN [op |-> "get_device_status", device_id |-> device_id, status_code |-> 403]
         ELSE IF outcome = "rejected"
         THEN [op |-> "get_device_status", device_id |-> device_id, status_code |-> 500]
         ELSE [op |-> "get_device_status", device_id |-> device_id, status_code |-> 200,
               uptime_percentage |->
                   IF intervals_with_data(device_id) # 0
                   THEN Some(UptimePercentage(intervals_with_data(device_id)))
                   ELSE None]
    /\ UNCHANGED <<now, devices, readings, signals, evalReading, evalResult, sweeps>>

DeviceStatus ==
    \E user \in Users, device_id \in 1..3, outcome \in DivisionOutcomes :
        get_device_status(user, device_id, outcome)

NextUptime == DeviceStatus

SpecUptime == InitUptime /\ [][NextUptime]_vars

-----------------------------------------------------------------------------
(* Claims on check_thresholds (SpecEval)                                   *)

Evaluated == evalResult.call = "check_thresholds"

\* the candidates of one kind, in the order returned
OfType(anomalies, type) == SelectSeq(anomalies, LAMBDA a : a.type = type)

KindAndSeverity(anomalies) ==
    [i \in 1..Len(anomalies) |-> <<anomalies[i].type, anomalies[i].severity>>]

TemperatureSignals == KindAndSeverity(OfType(evalResult.anomalies, "threshold_breach"))

VibrationSignals ==
    KindAndSeverity(SelectSeq(evalResult.anomalies,
                              LAMBDA a : a.type \in {"maintenance", "predictive"}))

\* the vibration axes that carry a value
PresentAxes ==
    { a \in {evalReading.vibration_x, evalReading.vibration_y, evalReading.vibration_z} :
        a # None }

\* v: the greatest value among the present axes (PresentAxes # {})
AxesMax == CHOOSE v \in {a[1] : a \in PresentAxes} :
              \A w \in {a[1] : a \in PresentAxes} : w <= v

\* C1 as stated: no temperature signal at 900 or below, warning just above
\* 900, critical for every temperature >= 990, 990 itself included.
C1_CriticalFrom990Inclusive ==
    Evaluated =>
        LET t == evalReading.temperature IN
        /\ (t = None \/ t[1] <= 90000) => TemperatureSignals = << >>
        /\ (t # None /\ t[1] > 90000 /\ t[1] < 99000)
              => TemperatureSignals = << <<"threshold_breach", "warning">> >>
        /\ (t # None /\ t[1] >= 99000)
              => TemperatureSignals = << <<"threshold_breach", "critical">> >>

\* C1 (amended): no temperature signal when the temperature is absent or at
\* most 900; a threshold-breach signal of severity warning for
\* 900 < temperature <= 990 (exactly 990 included); of severity critical for
\* every temperature strictly above 990.
C1_TemperatureBoundaries ==
    Evaluated =>
        LET t == evalReading.temperature IN
        /\ (t = None \/ t[1] <= 90000) => TemperatureSignals = << >>
        /\ (t # None /\ t[1] > 90000 /\ t[1] <= 99000)
              => TemperatureSignals = << <<"threshold_breach", "warning">> >>
        /\ (t # None /\ t[1] > 99000)
              => TemperatureSignals = << <<"threshold_breach", "critical">> >>

\* a reading at exactly 990.00 has been evaluated and came out as a warning
C1_Witness ==
    /\ Evaluated
    /\ evalReading.temperature = Some(99000)
    /\ TemperatureSignals = << <<"threshold_breach", "warning">> >>

\* C2: with v the greatest vibration axis: v = 8.0 gives no
\* maintenance/critical signal and every v > 8.0 gives one; v = 5.0 gives no
\* vibration signal and 5.0 < v <= 8.0 gives exactly the predictive/warning
\* signal; the two vibration signals never come together.
C2_VibrationTiers ==
    Evaluated =>
        /\ PresentAxes # {} =>
              /\ AxesMax = 800 => <<"maintenance", "critical">> \notin Range(VibrationSignals)
              /\ AxesMax > 800 => <<"maintenance", "critical">> \in Range(VibrationSignals)
              /\ AxesMax = 500 => VibrationSignals = << >>
              /\ (AxesMax > 500 /\ AxesMax <= 800)
                    => VibrationSignals = << <<"predictive", "warning">> >>
        /\ ~ ( /\ OfType(evalResult.anomalies, "maintenance") # << >>
               /\ OfType(evalResult.anomalies, "predictive") # << >> )

\* the greatest axis is exactly 8.0 and only the warning tier fired
C2_Witness ==
    /\ Evaluated
    /\ PresentAxes # {}
    /\ AxesMax = 800
    /\ VibrationSignals = << <<"predictive", "warning">> >>

\* the rule table of the specification, on the present values of a reading:
\* the kinds of the rules whose condition holds, in table order
TableKinds(r) ==
    LET axes == {a \in {r.vibration_x, r.vibration_y, r.vibration_z} : a # None}
        over(limit) == \E a \in axes : a[1] > limit
    IN  (IF r.temperature # None /\ r.temperature[1] > 90000
         THEN <<"threshold_breach">> ELSE << >>)
        \o (IF r.gas_index # None /\ r.gas_index[1] > 40000
            THEN <<"anomaly">> ELSE << >>)
        \o (IF over(800) THEN <<"maintenance">>
            ELSE IF over(500) THEN <<"predictive">> ELSE << >>)
        \o (IF r.power_consumption # None /\ r.power_consumption[1] > 5000
            THEN <<"efficiency">> ELSE << >>)

\* C3: check_thresholds returns exactly one candidate per rule of the table
\* whose condition holds on the present values, none for any other rule, in
\* the order temperature, gas, vibration, power; absent channels trigger
\* nothing.
C3_AllMatchingRulesFire ==
    Evaluated =>
        [i \in 1..Len(evalResult.anomalies) |-> evalResult.anomalies[i].type]
            = TableKinds(evalReading)

\* a reading with absent channels on which three rules of different channels fire
C3_Witness ==
    /\ Evaluated
    /\ evalReading.temperature = None
    /\ evalReading.vibration_x = None
    /\ Len(evalResult.anomalies) = 3

-----------------------------------------------------------------------------
(* Claims on process_signals_for_reading (SpecProcess)                     *)

Processed == evalResult.call = "process_signals_for_reading"

\* a signal built from an AI result carries it in analysis_result
AISourced(signal) == signal.analysis_result # None

-----------------------------------------------------------------------------
(* Claims on the mock-data sweep (SpecMock)                                *)

Triple(signal) == <<signal.device_id, signal.title, signal.detected_at>>

MockSucceeded(request) ==
    request.op = "generate_signals_from_mock_data" /\ request.status_code = 200

NoTwoSignalsShareATriple ==
    \A i, j \in DOMAIN signals : i # j => Triple(signals[i]) # Triple(signals[j])

\* a run of the sweep directly after a run over the same factories, the
\* readings being the same, creates nothing
SecondMockRunCreatesNothing ==
    ( /\ MockSucceeded(last)
      /\ MockSucceeded(last')
      /\ last'.factory_ids = last.factory_ids
      /\ readings' = readings )
    => last'.total_signals_created = 0 /\ signals' = signals

-----------------------------------------------------------------------------
(* Claims on the store under every request (Spec)                          *)

AnalyzeSucceeded(request) ==
    /\ request.op = "analyze_recent_data"
    /\ request.status_code = 201
    /\ request.status = "success"

\* the rows a step has added to table signals
NewRows == (Len(signals) + 1)..Len(signals')

\* C6 as stated: analyze_recent_data run twice in sequence over the same
\* window and readings creates no signal on the second run whose
\* (device, title, detected_at) already exists in the store.  (Stated for the
\* rule-based signals, whose title is fixed by the rule.)
C6_AnalyzeSweepDeduplicates ==
    [][ ( /\ AnalyzeSucceeded(last)
          /\ AnalyzeSucceeded(last')
          /\ last'.factory_id = last.factory_id
          /\ last'.hours = last.hours
          /\ last'.use_ai = last.use_ai
          /\ now' = now
          /\ readings' = readings )
        => \A i \in NewRows :
              ~AISourced(signals'[i])
              => ~Existing(signals, signals'[i].device_id, signals'[i].title,
                           signals'[i].detected_at) ]_vars

CallerMayAccess(user, signal) ==
    user.role = "admin" \/ Some(signal.factory_id) = user.factory_id

\* C8: acknowledge_signal on an existing signal the caller may access sets
\* status completed and processed_at to the current time whatever the prior
\* status and changes nothing else; an unknown id gives 404 and a non-admin
\* caller of another factory 403, both changing nothing.
C8_AcknowledgeEffect ==
    [][ \A user \in Users, signal_id \in 1..(MaxSignals + 1) :
          acknowledge_signal(user, signal_id) =>
            /\ UNCHANGED <<now, devices, readings>>
            /\ IF signal_id \notin DOMAIN signals
               THEN last'.status_code = 404 /\ signals' = signals
               ELSE IF ~CallerMayAccess(user, signals[signal_id])
               THEN last'.status_code = 403 /\ signals' = signals
               ELSE /\ last'.status_code = 200
                    /\ DOMAIN signals' = DOMAIN signals
                    /\ signals'[signal_id] =
                          [signals[signal_id] EXCEPT !.status = "completed",
                                                     !.processed_at = Some(now)]
                    /\ \A j \in DOMAIN signals \ {signal_id} : signals'[j] = signals[j]
      ]_vars

\* a signal that was in state processing has been acknowledged while another
\* signal is in the table
C8_Witness ==
    /\ last.op = "acknowledge_signal"
    /\ last.status_code = 200
    /\ last.prior.status = "processing"
    /\ Len(signals) >= 2
    /\ signals[last.signal_id].status = "completed"
    /\ signals[last.signal_id].processed_at = Some(now)

\* C9 as stated: acknowledging a signal already completed leaves the whole
\* signal, processed_at included, unchanged.
C9_AcknowledgeKeepsTimestamp ==
    [][ \A user \in Users, signal_id \in DOMAIN signals :
          ( /\ acknowledge_signal(user, signal_id)
            /\ CallerMayAccess(user, signals[signal_id])
            /\ signals[signal_id].status = "completed" )
          => last'.status_code = 200 /\ signals' = signals ]_vars

\* C9 (amended): acknowledging a signal already completed raises no error
\* and leaves every signal unchanged except that signal's processed_at, which
\* is overwritten with the current time.
C9_AcknowledgeOverwritesTimestamp ==
    [][ \A user \in Users, signal_id \in DOMAIN signals :
          ( /\ acknowledge_signal(user, signal_id)
            /\ CallerMayAccess(user, signals[signal_id])
            /\ signals[signal_id].status = "completed" )
          => /\ last'.status_code = 200
             /\ signals' = [signals EXCEPT ![signal_id].processed_at = Some(now)] ]_vars

\* a completed signal has been acknowledged again and its processed_at moved
C9_Witness ==
    /\ last.op = "acknowledge_signal"
    /\ last.status_code = 200
    /\ last.prior.status = "completed"
    /\ last.prior.processed_at # Some(now)
    /\ signals[last.signal_id].processed_at = Some(now)

-----------------------------------------------------------------------------
(* Claims on concurrent mock sweeps (SpecRace)                             *)

\* two persisted signals with the same (device, title, detected_at)
DuplicateRows ==
    { <<i, j>> \in (DOMAIN signals) \X (DOMAIN signals) :
        i < j /\ Triple(signals[i]) = Triple(signals[j]) }

BothSweepsDone == \A w \in Workers : sweeps[w].pc = "done"

\* C11: the dedup check is check-then-act.  A sweep inserts a signal only when
\* its own query saw no row with that triple, so any two persisted signals
\* that share a triple were inserted by two different sweeps, each of which
\* checked before the other committed; a reachable state holds such a pair
\* (C11_Witness), so the triple is not unique under concurrency.
C11_DuplicatesOnlyAcrossSweeps ==
    \A p \in DuplicateRows :
        signals[p[1]].created_by # signals[p[2]].created_by

\* both sweeps have returned and the table holds two signals with one triple
C11_Witness ==
    /\ BothSweepsDone
    /\ \E p \in DuplicateRows :
          signals[p[1]].created_by # signals[p[2]].created_by

-----------------------------------------------------------------------------
(* Claims on the timestamps of a signal (Spec)                             *)

\* C12 as stated: every persisted signal whose processed_at is set has
\* processed_at >= detected_at.
C12_ProcessedNotBeforeDetected ==
    \A i \in DOMAIN signals :
        signals[i].processed_at # None
            => signals[i].processed_at[1] >= signals[i].detected_at

-----------------------------------------------------------------------------
(* Claims on the rows created by each path (SpecOrigins)                   *)

Creators ==
    {"generate_signals_for_reading", "process_signals_for_reading",
     "generate_signals_from_mock_data"}

\* C13: every persisted signal's factory is the factory of the device it
\* references, on every creation path and after every later operation.
C13_SignalFactoryIsDeviceFactory ==
    \A i \in DOMAIN signals :
        /\ signals[i].device_id \in DOMAIN devices
        /\ signals[i].factory_id = devices[signals[i].device_id].factory_id

\* each creation path has created a signal for a device whose row id differs
\* from its factory's, and one of them has been acknowledged
C13_Witness ==
    /\ \A c \in Creators :
          \E i \in DOMAIN signals :
             /\ signals[i].created_by = c
             /\ signals[i].device_id # signals[i].factory_id
    /\ last.op = "acknowledge_signal"
    /\ last.status_code = 200

-----------------------------------------------------------------------------
(* Claims on a sweep whose collaborator fails (SpecSweep)                  *)

\* the failures of the collaborator: not configured, the call failed, text
\* that does not parse, a parsed value that is not an object, an object
\* whose severity is no AlertSeverity
FailedReply(reply) ==
    \/ reply.how \in {"unconfigured", "failed", "not_json"}
    \/ /\ reply.how = "json"
       /\ \/ ~reply.value.is_object
          \/ /\ reply.value.is_object
             /\ reply.value.severity # None
             /\ reply.value.severity[1] \notin AlertSeverity

\* the readings the finished sweep had in scope, in the order visited
SweptReadings == AnalyzeWorklist(ActiveDevices(last.factory_id), now - last.hours)

RECURSIVE SumCreated(_)
SumCreated(trace) ==
    IF trace = << >> THEN 0
    ELSE Head(trace).rule_signals + Head(trace).ai_signals + SumCreated(Tail(trace))

-----------------------------------------------------------------------------
(* Claims on the AI step of process_signals_for_reading (SpecProcess)      *)

\* the call reached the collaborator, which answered text that is not JSON
AnsweredUnparseable ==
    /\ Processed
    /\ evalResult.result.ai_called
    /\ evalResult.reply.how = "not_json"

\* C15 as stated: when the collaborator answers text that is not parseable
\* JSON, a signal is created for the reading (the "unparsed" signal).
C15_UnparsedSignalCreated ==
    AnsweredUnparseable =>
        /\ evalResult.result.ai_signals = 1
        /\ \E i \in DOMAIN signals : AISourced(signals[i])

\* C15 (amended): text that is not parseable JSON becomes the fallback result
\* of analyze_anomaly, which reports no anomaly; no signal is created for the
\* reading and the call returns an empty list.
C15_UnparsedYieldsNoSignal ==
    AnsweredUnparseable =>
        /\ analyze_anomaly(evalResult.reply) # None
        /\ ~analyze_anomaly(evalResult.reply)[1].anomaly_detected
        /\ evalResult.result.signals_created = << >>
        /\ signals = << >>

\* an unparseable answer was received for a reading no rule fires on
C15_Witness ==
    /\ AnsweredUnparseable
    /\ check_thresholds(evalReading) = << >>
    /\ evalResult.result.ai_signals = 0

\* every numeric channel of the reading is absent
AllChannelsAbsent ==
    \A ch \in {"temperature", "gas_index", "vibration_x", "vibration_y", "vibration_z",
               "humidity", "pressure", "power_consumption"} :
        evalReading[ch] = None

\* C16 as stated: for a reading with every numeric channel absent,
\* process_signals_for_reading with its default use_ai (True) returns an
\* empty list and does not invoke the AI collaborator.
C16_AbsentReadingSkipsAI ==
    (Processed /\ AllChannelsAbsent /\ evalResult.use_ai)
        => /\ evalResult.result.signals_created = << >>
           /\ ~(evalResult.result.ai_called /\ Posts(evalResult.reply))

-----------------------------------------------------------------------------
(* Claims on confidence scores                                             *)

\* C17 as stated (SpecOrigins): every signal produced from a threshold rule
\* has confidence score 95.0, whichever rule fired and on every creation
\* path, the seed script's generate_signals_for_reading included.
C17_RuleConfidenceIs95 ==
    \A i \in DOMAIN signals :
        ~AISourced(signals[i]) => signals[i].confidence_score = 95

\* C18 (SpecProcess): an AI-sourced signal has kind anomaly and confidence
\* 75.0, below the 95.0 of the rule-based signals; it exists only when the
\* collaborator reported an anomaly on a reading with no rule hit, and a
\* reading gets at most one.
C18_AISignalShape ==
    Processed =>
        /\ evalResult.result.ai_signals <= 1
        /\ Len(SelectSeq(signals, AISourced)) = evalResult.result.ai_signals
        /\ \A i \in DOMAIN signals :
              AISourced(signals[i])
                 => /\ signals[i].signal_type = "anomaly"
                    /\ signals[i].confidence_score = 75
                    /\ \A r \in ProcessInputs :
                          \A rule \in Range(ThresholdSignals(devices[1],
                                                             SensorReading(1, now, r))) :
                             signals[i].confidence_score < rule.confidence_score
                    /\ check_thresholds(evalReading) = << >>
                    /\ evalResult.reply.how = "json"
                    /\ evalResult.reply.value.is_object
                    /\ evalResult.reply.value.anomaly_detected

\* the collaborator reported an anomaly and the AI signal was created
C18_Witness ==
    /\ Processed
    /\ evalResult.result.ai_signals = 1
    /\ \E i \in DOMAIN signals :
          AISourced(signals[i]) /\ signals[i].confidence_score = 75

-----------------------------------------------------------------------------
(* Claims on the gas and power rules (SpecEval)                            *)

GasSignals == KindAndSeverity(OfType(evalResult.anomalies, "anomaly"))

PowerSignals == KindAndSeverity(OfType(evalResult.anomalies, "efficiency"))

\* C19: gas_index > 400 gives one anomaly signal of severity warning and
\* power_consumption > 50 one efficiency signal of severity info, however
\* large the value; a value equal to the limit, below it, or absent gives none.
C19_GasAndPowerFlat ==
    Evaluated =>
        LET g == evalReading.gas_index
            p == evalReading.power_consumption
        IN /\ (g # None /\ g[1] > 40000) => GasSignals = << <<"anomaly", "warning">> >>
           /\ (g = None \/ g[1] <= 40000) => GasSignals = << >>
           /\ (p # None /\ p[1] > 5000) => PowerSignals = << <<"efficiency", "info">> >>
           /\ (p = None \/ p[1] <= 5000) => PowerSignals = << >>

\* gas far above 400 and power far above 50 were evaluated: warning and info
C19_Witness ==
    /\ Evaluated
    /\ evalReading.gas_index = Some(F(5000))
    /\ evalReading.power_consumption = Some(F(900))
    /\ GasSignals = << <<"anomaly", "warning">> >>
    /\ PowerSignals = << <<"efficiency", "info">> >>

-----------------------------------------------------------------------------
(* Claims on the uptime figure (SpecUptime)                                *)

\* the five-minute buckets of the trailing 24 hours that hold a reading
CoveredBuckets(device_id) ==
    { readings[i].timestamp \div IntervalSeconds : i \in RecentOf(device_id) }

\* C20 as stated: for a device with at least one reading in the trailing 24
\* hours, get_device_status reports uptime = covered buckets / 288 x 100,
\* several readings in one bucket counting once, and never more than 100.
C20_UptimeFromCoveredBuckets ==
    ( /\ last.op = "get_device_status"
      /\ last.status_code \notin {403, 404}
      /\ RecentOf(last.device_id) # {} )
    => /\ last.status_code = 200
       /\ last.uptime_percentage
             = Some(UptimePercentage(Cardinality(CoveredBuckets(last.device_id))))
       /\ last.uptime_percentage[1] <= 100 * 100

-----------------------------------------------------------------------------
(* C21  get_device_status, a device without readings in the window         *)

\* C21 as stated: for a device with no reading in the trailing 24 hours
\* get_device_status reports the uptime as undefined (null), never as 0, and
\* any uptime number it reports is greater than 0.
C21_NoReadingsUptimeUndefined ==
    ( /\ last.op = "get_device_status"
      /\ last.status_code \notin {403, 404} )
    => /\ last.status_code = 200
       /\ RecentOf(last.device_id) = {} => last.uptime_percentage = None
       /\ last.uptime_percentage # None => last.uptime_percentage[1] > 0

-----------------------------------------------------------------------------
(* get_factory_dashboard (factories.py): the vibration health score        *)

\* the largest window of readings a dashboard request is given
MaxDashReadings == 2

RECURSIVE Factorial(_)
Factorial(n) == IF n = 0 THEN 1 ELSE n * Factorial(n - 1)

\* avg_vibration and the unrounded score are whole numbers of 1/VibUnit:
\* hundredths (as F), thirds for the `/ 3`, and a common multiple of the row
\* counts the column averages divide by
VibUnit == 100 * 3 * Factorial(MaxDashReadings)

\* max(0, 30 - (avg_vibration - 10) * 3)
ScoreAbove10(avg_vibration) == Max2(0, 30 * VibUnit - (avg_vibration - 10 * VibUnit) * 3)

ScoreAbove5_From75(avg_vibration) == 75 * VibUnit - (avg_vibration - 5 * VibUnit) * 8
\* 70 - (avg_vibration - 5) * 8
ScoreAbove5(avg_vibration) == 70 * VibUnit - (avg_vibration - 5 * VibUnit) * 8

\* 100 - avg_vibration * 6
ScoreUpTo5(avg_vibration) == 100 * VibUnit - avg_vibration * 6

\* the if / elif / else over avg_vibration
vibration_score(avg_vibration) ==
    IF avg_vibration > 10 * VibUnit THEN ScoreAbove10(avg_vibration)
    ELSE IF avg_vibration > 5 * VibUnit THEN ScoreAbove5(avg_vibration)
    ELSE ScoreUpTo5(avg_vibration)

\* round(x, 1) of a float that lies half way between two tenths goes to
\* either side, depending on the binary value the arithmetic left behind
RoundTies == {"down", "up"}

\* round(value, 1), in tenths, of a value counted in 1/unit
RoundTo(value, unit, tie) ==
    LET q == (value * 10) \div unit
        r == (value * 10) % unit
    IN  IF 2 * r < unit THEN q
        ELSE IF 2 * r > unit THEN q + 1
        ELSE IF tie = "up" THEN q + 1 ELSE q

round1(value, tie) == RoundTo(value, VibUnit, tie)

\* vibration_score = round(vibration_score, 1)
VibrationHealthScore(avg_vibration, tie) == round1(vibration_score(avg_vibration), tie)

\* ---- SpecScore: the score of one average ----

ScoreSteps == 440

\* averages from -1.00 to 21.00 in steps of 0.05, and two far ones
ScoreInputs ==
    { ((k - 20) * VibUnit) \div 20 : k \in 0..ScoreSteps }
        \cup { (0 - 9) * VibUnit, 1000 * VibUnit }

InitScore ==
    /\ StoreIdle
    /\ evalReading \in { [avg_vibration |-> v] : v \in ScoreInputs }
    /\ evalResult = NotCalled

Score ==
    /\ evalResult = NotCalled
    /\ \E tie \in RoundTies :
         evalResult' = [ call |-> "vibration_score",
                         vibration_health_score |->
                             VibrationHealthScore(evalReading.avg_vibration, tie) ]
    /\ UNCHANGED <<now, devices, readings, signals, last, evalReading, sweeps>>

NextScore == Score

SpecScore == InitScore /\ [][NextScore]_vars

-----------------------------------------------------------------------------
(* C22  the vibration health score over avg_vibration                      *)

\* C22: the vibration health score never rises as avg_vibration rises, across
\* the three regimes, and the regimes meet: at avg_vibration 5 both formulas
\* give 70, at 10 both give 30.
C22_ScoreNonIncreasingAndContinuous ==
    evalResult.call = "vibration_score" =>
      LET v == evalReading.avg_vibration IN
        /\ \A w \in ScoreInputs, tie \in RoundTies :
              w > v => VibrationHealthScore(w, tie) <= evalResult.vibration_health_score
        /\ v = 5 * VibUnit =>
              /\ evalResult.vibration_health_score = 700
              /\ ScoreUpTo5(v) = ScoreAbove5(v)
        /\ v = 10 * VibUnit =>
              /\ evalResult.vibration_health_score = 300
              /\ ScoreAbove5(v) = ScoreAbove10(v)

\* a score is computed at each boundary, in each regime, and on a rounding tie
C22_Witness ==
    /\ evalResult.call = "vibration_score"
    /\ evalReading.avg_vibration = 10 * VibUnit
    /\ evalResult.vibration_health_score = 300

-----------------------------------------------------------------------------
(* get_factory_dashboard (factories.py): the queries and the response      *)

\* In the dashboard specifications the clock counts minutes.
\* timedelta(hours=24)
DayMinutes == 1440

\* timedelta(minutes=5)
ActiveMinutes == 5

\* the rows of table alerts: written by seed.py only
SeedAlerts ==
    << [device_id |-> 1, factory_id |-> 1, status |-> "active"],
       [device_id |-> 2, factory_id |-> 1, status |-> "acknowledged"],
       [device_id |-> 3, factory_id |-> 2, status |-> "resolved"] >>

\* count(Device.id) where factory_id matches, over the rows the statement sees
TotalDevices(visible, factory_id) ==
    Cardinality({ id \in DOMAIN visible : visible[id].factory_id = factory_id })

\* ... and is_active and last_seen >= now - 5 minutes (NULL compares false)
ActiveDeviceCount(visible, factory_id, at) ==
    Cardinality({ id \in DOMAIN visible :
                    /\ visible[id].factory_id = factory_id
                    /\ visible[id].is_active
                    /\ visible[id].last_seen # None
                    /\ visible[id].last_seen[1] >= at - ActiveMinutes })

TotalAlerts(factory_id) ==
    Cardinality({ i \in DOMAIN SeedAlerts : SeedAlerts[i].factory_id = factory_id })

ActiveAlerts(factory_id) ==
    Cardinality({ i \in DOMAIN SeedAlerts :
                    /\ SeedAlerts[i].factory_id = factory_id
                    /\ SeedAlerts[i].status = "active" })

\* count(Signal.id) where factory_id matches
TotalSignals(visible, factory_id) ==
    Cardinality({ i \in DOMAIN visible : visible[i].factory_id = factory_id })

\* ... and status == NEW
NewSignals(visible, factory_id) ==
    Cardinality({ i \in DOMAIN visible :
                    /\ visible[i].factory_id = factory_id
                    /\ visible[i].status = "new" })

\* device_ids
FactoryDeviceIds(factory_id) ==
    { id \in DOMAIN devices : devices[id].factory_id = factory_id }

\* the rows of the metrics query: device_id in device_ids, timestamp >= last_24h
DashWindow(factory_id, at) ==
    { i \in DOMAIN readings :
        /\ readings[i].device_id \in FactoryDeviceIds(factory_id)
        /\ readings[i].timestamp >= at - DayMinutes }

RECURSIVE SumColumn(_, _)
SumColumn(rows, column) ==
    IF rows = {} THEN 0
    ELSE LET i == CHOOSE r \in rows : TRUE
         IN readings[i][column][1] + SumColumn(rows \ {i}, column)

\* column averages are whole numbers of 1/AvgUnit
AvgUnit == 100 * Factorial(MaxDashReadings)

\* func.avg(column): the mean of the non-NULL values, NULL when there is none
func_avg(rows, column) ==
    LET present == { i \in rows : readings[i][column] # None } IN
    IF present = {} THEN None
    ELSE Some(SumColumn(present, column)
                 * (Factorial(MaxDashReadings) \div Cardinality(present)))

\* func.sum(column), in hundredths
func_sum(rows, column) ==
    LET present == { i \in rows : readings[i][column] # None } IN
    IF present = {} THEN None ELSE Some(SumColumn(present, column))

\* `round(m, 1) if m else None`
RoundedOrNone(m, tie) == IF Truthy(m) THEN Some(RoundTo(m[1], AvgUnit, tie)) ELSE None

\* avg_vibration, in 1/VibUnit: the three column averages, `or 0`, over 3;
\* not computed when none of the three is truthy
avg_vibration(rows) ==
    LET x == func_avg(rows, "vibration_x")
        y == func_avg(rows, "vibration_y")
        z == func_avg(rows, "vibration_z")
    IN  IF Truthy(x) \/ Truthy(y) \/ Truthy(z)
        THEN Some(OrZero(x) + OrZero(y) + OrZero(z))
        ELSE None

\* the part of the response computed from the metrics row
SensorMetrics(factory_id, at, ties) ==
    LET rows == DashWindow(factory_id, at) IN
    IF FactoryDeviceIds(factory_id) = {}
    THEN [ avg_temperature |-> None, avg_gas_index |-> None,
           vibration_health_score |-> None, energy_consumption_24h |-> None ]
    ELSE [ avg_temperature |-> RoundedOrNone(func_avg(rows, "temperature"), ties.temperature),
           avg_gas_index   |-> RoundedOrNone(func_avg(rows, "gas_index"), ties.gas),
           vibration_health_score |->
               IF avg_vibration(rows) = None THEN None
               ELSE Some(VibrationHealthScore(avg_vibration(rows)[1], ties.vibration)),
           energy_consumption_24h |->
               IF Truthy(func_sum(rows, "power_consumption"))
               THEN func_sum(rows, "power_consumption") ELSE None ]

DashTies == [temperature : RoundTies, gas : RoundTies, vibration : RoundTies]

\* the access check and the factory lookup: 0 when both pass
DashRefusal(user, factory_id) ==
    IF user.role # "admin" /\ user.factory_id # Some(factory_id) THEN 403
    ELSE IF factory_id \notin Range(Factories) THEN 404
    ELSE 0

DashboardStats(factory_id, counts, metrics) ==
    [ op |-> "get_factory_dashboard", factory_id |-> factory_id, status_code |-> 200,
      total_devices |-> counts.total_devices, active_devices |-> counts.active_devices,
      total_alerts |-> counts.total_alerts, active_alerts |-> counts.active_alerts,
      total_signals |-> counts.total_signals, new_signals |-> counts.new_signals,
      avg_temperature |-> metrics.avg_temperature,
      avg_gas_index |-> metrics.avg_gas_index,
      vibration_health_score |-> metrics.vibration_health_score,
      energy_consumption_24h |-> metrics.energy_consumption_24h ]

\* GET /factories/{factory_id}/dashboard, served without interruption
get_factory_dashboard(user, factory_id, ties) ==
    /\ last' =
         IF DashRefusal(user, factory_id) # 0
         THEN [ op |-> "get_factory_dashboard", factory_id |-> factory_id,
                status_code |-> DashRefusal(user, factory_id) ]
         ELSE DashboardStats(factory_id,
                [ total_devices  |-> TotalDevices(devices, factory_id),
                  active_devices |-> ActiveDeviceCount(devices, factory_id, now),
                  total_alerts   |-> TotalAlerts(factory_id),
                  active_alerts  |-> ActiveAlerts(factory_id),
                  total_signals  |-> TotalSignals(signals, factory_id),
                  new_signals    |-> NewSignals(signals, factory_id) ],
                SensorMetrics(factory_id, now, ties))
    /\ UNCHANGED <<now, devices, readings, signals, evalReading, evalResult, sweeps>>

\* ---- SpecDashboard: one dashboard request over a stored window ----

DashNow == DayMinutes + 10

\* three devices, two in factory 1: one seen five minutes ago, one six
\* minutes ago, one never
DashDevices ==
    [ SeedDevices3 EXCEPT ![1].last_seen = Some(DashNow - ActiveMinutes),
                          ![2].last_seen = Some(DashNow - ActiveMinutes - 1),
                          ![3].last_seen = None ]

Vibrating(x, y, z) ==
    [ Nominal EXCEPT !.vibration_x = x, !.vibration_y = y, !.vibration_z = z ]

\* axis values of an accelerometer: positive, negative, large, missing
DashChannels ==
    { Vibrating(Some(F(3)), Some(F(3)), Some(F(3))),
      Vibrating(Some(F(9)), None, None),
      Vibrating(Some(F(6)), Some(F(6)), None),
      Vibrating(Some(F(0 - 3)), Some(F(0 - 3)), Some(F(0 - 3))),
      Vibrating(Some(F(3)), Some(F(0 - 3)), None),
      Vibrating(Some(F(30)), Some(F(30)), Some(F(30))),
      Absent }

\* rows just inside and just outside the 24 hour window
DashRows ==
    { SensorReading(d, ts, c) :
        d \in {1, 3}, ts \in {DashNow - DayMinutes - 1, DashNow - DayMinutes},
        c \in DashChannels }

InitDashboard ==
    /\ now = DashNow
    /\ devices = DashDevices
    /\ readings \in UNION { [1..n -> DashRows] : n \in 0..MaxDashReadings }
    /\ signals \in {<< >>} \cup {<<s>> : s \in StoredSignals}
    /\ last = NoRequest
    /\ sweeps = NoSweeps
    /\ EvalIdle

Dashboard ==
    \E user \in Users, factory_id \in 1..3, ties \in DashTies :
        get_factory_dashboard(user, factory_id, ties)

NextDashboard == Dashboard

SpecDashboard == InitDashboard /\ [][NextDashboard]_vars

-----------------------------------------------------------------------------
(* C23, C30  the dashboard's vibration figures (SpecDashboard)             *)

DashboardServed == last.op = "get_factory_dashboard" /\ last.status_code = 200

\* C23 as stated: a reported vibration health score is never below 0 and
\* never above 100, whatever the axis values, negative and very large ones
\* included.
C23_ScoreWithin0And100 ==
    (DashboardServed /\ last.vibration_health_score # None)
        => /\ last.vibration_health_score[1] >= 0
           /\ last.vibration_health_score[1] <= 1000

\* the vibration axes a stored reading carries
AxesOf(i) ==
    { c \in {"vibration_x", "vibration_y", "vibration_z"} : readings[i][c] # None }

RECURSIVE SumAxes(_, _)
SumAxes(i, axes) ==
    IF axes = {} THEN 0
    ELSE LET c == CHOOSE a \in axes : TRUE
         IN readings[i][c][1] + SumAxes(i, axes \ {c})

\* the sum over the rows of weight * (sum of the row's axes) \div (its divisor)
RECURSIVE SumReadingAverages(_, _)
SumReadingAverages(rows, byCarried) ==
    IF rows = {} THEN 0
    ELSE LET i == CHOOSE r \in rows : TRUE
         IN (IF byCarried
             THEN SumAxes(i, AxesOf(i)) * (6 \div Cardinality(AxesOf(i)))
             ELSE SumAxes(i, AxesOf(i)) * 2)
            + SumReadingAverages(rows \ {i}, byCarried)

\* avg_vibration (in 1/VibUnit) is the mean over the rows of each row's own
\* average: of its three axes, a missing axis counting as 0
IsMeanOfThreeAxisAverages(v, rows) ==
    v * Cardinality(rows) * 2 = Factorial(MaxDashReadings) * SumReadingAverages(rows, FALSE)

\* ... or of the axes the row carries, rows without axes left out
IsMeanOfCarriedAxisAverages(v, rows) ==
    LET carrying == { i \in rows : AxesOf(i) # {} } IN
    v * Cardinality(carrying) * 2 = Factorial(MaxDashReadings) * SumReadingAverages(carrying, TRUE)

\* C30 as stated: the avg_vibration of a dashboard equals the mean, over the
\* readings of the window, of each reading's own three-axis average, also
\* when readings of the window lack axes.
C30_AvgVibrationIsMeanOfReadingAverages ==
    (DashboardServed /\ avg_vibration(DashWindow(last.factory_id, now)) # None)
        => LET rows == DashWindow(last.factory_id, now)
               v    == avg_vibration(rows)[1]
           IN  IsMeanOfThreeAxisAverages(v, rows) \/ IsMeanOfCarriedAxisAverages(v, rows)

-----------------------------------------------------------------------------
(* simulator.py: generate_sample_data, and requests to the simulator       *)

\* the readings of one generate-sample request: timestamp = now - i * 5
\* minutes for i in range(count); the clock of this specification counts
\* five-minute steps.  The random channel values lie in the nominal ranges.
SampleRows(device, at, count) ==
    [ k \in 1..count |-> SensorReading(device, at - (k - 1), Nominal) ]

\* POST /simulator/generate-sample
generate_sample_data(user, device_id, count) ==
    LET found == DeviceByRef(device_id) IN
    IF user.role \notin {"admin", "factory_owner"}
    THEN /\ last' = [op |-> "generate_sample_data", status_code |-> 403]
         /\ UNCHANGED <<now, devices, readings, signals, evalReading, evalResult, sweeps>>
    ELSE IF found = {}
    THEN /\ last' = [op |-> "generate_sample_data", status_code |-> 404]
         /\ UNCHANGED <<now, devices, readings, signals, evalReading, evalResult, sweeps>>
    ELSE
      LET id == CHOOSE i \in found : TRUE IN
      IF user.role # "admin" /\ Some(devices[id].factory_id) # user.factory_id
      THEN /\ last' = [op |-> "generate_sample_data", status_code |-> 403]
           /\ UNCHANGED <<now, devices, readings, signals, evalReading, evalResult, sweeps>>
      ELSE /\ readings' = readings \o SampleRows(id, now, count)
           /\ devices' = [devices EXCEPT ![id].last_seen = Some(now)]
           /\ last' = [op |-> "generate_sample_data", status_code |-> 201,
                       device_id |-> device_id, generated_count |-> count]
           /\ UNCHANGED <<now, signals, evalReading, evalResult, sweeps>>

\* ---- SpecIngest: requests to the simulator, one after the other ----

MaxIngestReadings == 2

MaxIngestBatch == 2

MaxSampleCount == 2

\* the time of the requests, in five-minute steps
IngestNow == 1

DeviceRefs == {"ESP32-SF-001", "ESP32-CP-001", "ESP32-XX-404"}

\* readings sent to ingest-batch: for a device of factory 1, of factory 2 and
\* an unknown one; stamped before now, after now, or not at all; and one
\* with no channel value
IngestReadings ==
    { [device_id |-> d, timestamp |-> ts, channels |-> Nominal] :
        d \in DeviceRefs,
        ts \in {None, Some(IngestNow - 1), Some(IngestNow + 1)} }
      \cup { [device_id |-> "ESP32-SF-001", timestamp |-> None, channels |-> Absent] }

IngestBatches == UNION { [1..k -> IngestReadings] : k \in 1..MaxIngestBatch }

\* the requests a client sends
IngestRequests ==
    { [op |-> "simulate_batch_data", user |-> u, batch |-> b] :
        u \in Users, b \in IngestBatches }
      \cup { [op |-> "generate_sample_data", user |-> u, device_id |-> d, count |-> c] :
               u \in Users, d \in DeviceRefs, c \in 1..MaxSampleCount }

\* the rows a request can add
RequestRows(request) ==
    IF request.op = "simulate_batch_data" THEN Len(request.batch) ELSE request.count

\* evalReading holds the request being served, last its response
InitIngest ==
    /\ now = IngestNow
    /\ devices = SeedDevices
    /\ readings = << >>
    /\ signals = << >>
    /\ last = NoRequest
    /\ sweeps = NoSweeps
    /\ evalReading = NoRequest
    /\ evalResult = NotCalled

\* a request arrives once the one before is answered
Arrive ==
    /\ evalReading = NoRequest \/ last # NoRequest
    /\ \E request \in IngestRequests :
         /\ Len(readings) + RequestRows(request) <= MaxIngestReadings
         /\ evalReading' = request
    /\ last' = NoRequest
    /\ UNCHANGED <<now, devices, readings, signals, evalResult, sweeps>>

ServeBatch ==
    /\ last = NoRequest
    /\ evalReading.op = "simulate_batch_data"
    /\ simulate_batch_data(evalReading.user, evalReading.batch)

ServeSample ==
    /\ last = NoRequest
    /\ evalReading.op = "generate_sample_data"
    /\ generate_sample_data(evalReading.user, evalReading.device_id, evalReading.count)

NextIngest == Arrive \/ ServeBatch \/ ServeSample

SpecIngest == InitIngest /\ [][NextIngest]_vars

-----------------------------------------------------------------------------
(* C24, C27, C29  ingestion through the simulator (SpecIngest)             *)

\* the batch request has been answered with 201
BatchServed ==
    /\ evalReading.op = "simulate_batch_data"
    /\ last.op = "simulate_batch_data"
    /\ last.status_code = 201

\* the readings of the served batch that carry no channel value
AbsentInBatch ==
    { k \in DOMAIN evalReading.batch : evalReading.batch[k].channels = Absent }

\* row i of table sensor_readings has no channel value
StoredWithoutValues(i) ==
    \A ch \in {"temperature", "gas_index", "vibration_x", "vibration_y", "vibration_z",
               "humidity", "pressure", "power_consumption"} :
        readings[i][ch] = None

\* C24 as stated: a raw reading whose every numeric channel is absent is
\* rejected at ingestion: it is reported as an error and never stored.
C24_AbsentReadingRejected ==
    /\ \A i \in DOMAIN readings : ~StoredWithoutValues(i)
    /\ BatchServed =>
         /\ Len(last.errors) >= Cardinality(AbsentInBatch)
         /\ last.ingested_count <= Len(evalReading.batch) - Cardinality(AbsentInBatch)

\* the greatest timestamp among the stored readings of a device
GreatestTimestamp(id) ==
    LET ts == { readings[i].timestamp : i \in { j \in DOMAIN readings : readings[j].device_id = id } }
    IN  IF ts = {} THEN None ELSE Some(CHOOSE t \in ts : \A u \in ts : u <= t)

LastSeenNotBackwards ==
    \A id \in DOMAIN devices :
        devices[id].last_seen # None =>
            /\ devices'[id].last_seen # None
            /\ devices'[id].last_seen[1] >= devices[id].last_seen[1]

\* C27 as stated: a device's last_seen never moves backwards, and after any
\* ingestion it is the greatest timestamp among the readings ingested so far
\* for that device, in whatever order they arrived.
C27_LastSeenIsGreatestTimestamp ==
    /\ [](\A id \in DOMAIN devices : devices[id].last_seen = GreatestTimestamp(id))
    /\ [][LastSeenNotBackwards]_vars

\* the caller may ingest reading r: its device resolves and is the caller's
MayIngest(user, r) ==
    /\ DeviceByRef(r.device_id) # {}
    /\ \/ user.role = "admin"
       \/ \A id \in DeviceByRef(r.device_id) : Some(devices[id].factory_id) = user.factory_id

\* what a 201 answer to the batch in evalReading has to do to the store
BatchOutcome ==
    LET user   == evalReading.user
        batch  == evalReading.batch
        ok     == { k \in DOMAIN batch : MayIngest(user, batch[k]) }
        bad    == DOMAIN batch \ ok
        added  == (Len(readings) + 1)..Len(readings')
    IN  /\ last'.total_readings = Len(batch)
        /\ last'.ingested_count + Len(last'.errors) = last'.total_readings
        /\ Len(last'.errors) = Cardinality(bad)
        /\ \A k \in bad : \E e \in Range(last'.errors) : e.device_id = batch[k].device_id
        /\ Len(readings') = Len(readings) + Cardinality(ok)
        /\ \A i \in DOMAIN readings : readings'[i] = readings[i]
        /\ \A k \in ok : \E i \in added :
              /\ readings'[i].device_id \in DeviceByRef(batch[k].device_id)
              /\ readings'[i].timestamp =
                    IF batch[k].timestamp = None THEN now ELSE batch[k].timestamp[1]
        /\ \A id \in DOMAIN devices :
              (\A k \in ok : id \notin DeviceByRef(batch[k].device_id))
                  => devices'[id].last_seen = devices[id].last_seen

\* C29: in simulate_batch_data a reading whose device is unknown or not the
\* caller's is reported in errors, stores nothing and leaves last_seen alone,
\* and the other readings of the batch are ingested; ingested_count plus the
\* number of errors is total_readings; a reading without a timestamp is
\* stored with the current time.
C29_BadReadingsSkippedOthersIngested ==
    [][ ( /\ last = NoRequest
          /\ last'.op = "simulate_batch_data"
          /\ last'.status_code = 201 ) => BatchOutcome ]_vars

\* a batch whose first reading is for an unknown device and whose second, without
\* timestamp, is the caller's: one error, one row stamped with the current time
C29_Witness ==
    /\ BatchServed
    /\ Len(evalReading.batch) = 2
    /\ evalReading.batch[1].device_id = "ESP32-XX-404"
    /\ evalReading.batch[2].timestamp = None
    /\ last.ingested_count = 1
    /\ Len(last.errors) = 1
    /\ Len(readings) = 1
    /\ readings[1].timestamp = now
    /\ devices[1].last_seen = Some(now)

-----------------------------------------------------------------------------
(* devices.py: get_devices                                                 *)

\* the user auth.signup creates: role VIEWER, no factory
SignupUser == [role |-> "viewer", factory_id |-> None]

\* the callers of get_devices: the seeded users and one who signed up
Callers == Users \cup {SignupUser}

\* GET /devices: the ids of the rows returned
ListedDevices(user, factory_param) ==
    IF user.role # "admin"
    THEN IF Truthy(user.factory_id)
         THEN { id \in DOMAIN devices : Some(devices[id].factory_id) = user.factory_id }
         ELSE DOMAIN devices
    ELSE IF Truthy(factory_param)
         THEN { id \in DOMAIN devices : Some(devices[id].factory_id) = factory_param }
         ELSE DOMAIN devices

get_devices(user, factory_param) ==
    /\ last' = [ op |-> "get_devices", user |-> user, factory_id |-> factory_param,
                 status_code |-> 200,
                 devices |-> InIdOrder(ListedDevices(user, factory_param)) ]
    /\ UNCHANGED <<now, devices, readings, signals, evalReading, evalResult, sweeps>>

\* ---- SpecDevices: one listing over a table of registered devices ----

MaxListedDevices == 3

\* tables register_device can have built: each device in factory 1 or 2
DeviceTables ==
    UNION { { [ id \in 1..n |->
                  [ id |-> id,
                    device_id |-> SeedDevices3[id].device_id,
                    factory_id |-> f[id],
                    is_active |-> TRUE,
                    last_seen |-> None ] ] : f \in [1..n -> {1, 2}] } :
            n \in 1..MaxListedDevices }

InitDevices ==
    /\ now = 0
    /\ devices \in DeviceTables
    /\ readings = << >>
    /\ signals = << >>
    /\ last = NoRequest
    /\ sweeps = NoSweeps
    /\ EvalIdle

ListDevices ==
    \E user \in Callers, factory_param \in {None, Some(1), Some(2)} :
        get_devices(user, factory_param)

NextDevices == ListDevices

SpecDevices == InitDevices /\ [][NextDevices]_vars

-----------------------------------------------------------------------------
(* C25  get_devices and the caller's factory (SpecDevices)                 *)

\* C25 as stated: get_devices never returns to a caller who is not an admin a
\* device of a factory other than the caller's own, a caller without factory
\* (as created by public signup) included.
C25_OnlyOwnFactoryDevices ==
    (last.op = "get_devices" /\ last.user.role # "admin")
        => \A id \in Range(last.devices) :
              Some(devices[id].factory_id) = last.user.factory_id

-----------------------------------------------------------------------------
(* C28  the severity of persisted signals (SpecProcess)                    *)

\* the collaborator was called and reported an anomaly with a severity that
\* is not a value of AlertSeverity
ReportedUnknownSeverity ==
    /\ Processed
    /\ evalResult.result.ai_called
    /\ evalResult.reply.how = "json"
    /\ evalResult.reply.value.is_object
    /\ evalResult.reply.value.anomaly_detected
    /\ evalResult.reply.value.severity # None
    /\ evalResult.reply.value.severity[1] \notin AlertSeverity

\* C28: every persisted signal has a severity out of info, warning and
\* critical; an anomaly the AI reports with any other severity creates no
\* signal, and the call still returns its (empty) list.
C28_SeverityInClosedSet ==
    /\ \A i \in DOMAIN signals : signals[i].severity \in {"info", "warning", "critical"}
    /\ ReportedUnknownSeverity =>
          /\ signals = << >>
          /\ evalResult.result.signals_created = << >>
          /\ evalResult.result.ai_signals = 0

C28_Witness ==
    /\ ReportedUnknownSeverity
    /\ evalResult.reply.value.severity = Some("severe")
    /\ signals = << >>

-----------------------------------------------------------------------------
(* get_factory_dashboard, statement by statement, beside other requests    *)

\* How the statements of one request see the rows other requests commit
\* meanwhile (the engine and session of app/database.py decide):
\*   read_committed  each statement sees the rows committed when it runs
\*   snapshot        every statement sees the rows as of the first one
IsolationLevels == {"read_committed", "snapshot"}

\* the counting statements, in the order the handler issues them
DashOrder ==
    << "total_devices", "active_devices", "total_alerts", "active_alerts",
       "total_signals", "new_signals" >>

NoCounts == [ name \in Range(DashOrder) |-> 0 ]

\* the tables as the next statement of request sw sees them
DashSees(sw) ==
    IF sw.isolation = "snapshot" THEN sw.snapshot
    ELSE [devices |-> devices, signals |-> signals]

\* `db.query(func.count(...)).filter(...).scalar() or 0` for one of the counts
DashCount(name, sw) ==
    LET visible == DashSees(sw) IN
    CASE name = "total_devices"  -> TotalDevices(visible.devices, sw.factory_id)
      [] name = "active_devices" -> ActiveDeviceCount(visible.devices, sw.factory_id, sw.at)
      [] name = "total_alerts"   -> TotalAlerts(sw.factory_id)
      [] name = "active_alerts"  -> ActiveAlerts(sw.factory_id)
      [] name = "total_signals"  -> TotalSignals(visible.signals, sw.factory_id)
      [] name = "new_signals"    -> NewSignals(visible.signals, sw.factory_id)

\* the request arrives: access check, factory lookup, now
DashBegin(w) ==
    \E user \in Users, factory_id \in 1..3, isolation \in IsolationLevels :
        /\ sweeps[w].pc = "idle"
        /\ IF DashRefusal(user, factory_id) # 0
           THEN /\ sweeps' = [sweeps EXCEPT ![w] = [pc |-> "done"]]
                /\ last' = [ op |-> "get_factory_dashboard", factory_id |-> factory_id,
                             status_code |-> DashRefusal(user, factory_id) ]
           ELSE /\ sweeps' = [sweeps EXCEPT ![w] =
                                [ pc |-> "count", factory_id |-> factory_id, at |-> now,
                                  isolation |-> isolation,
                                  snapshot |-> [devices |-> devices, signals |-> signals],
                                  k |-> 1, counts |-> NoCounts ]]
                /\ UNCHANGED last
        /\ UNCHANGED <<now, devices, readings, signals, evalReading, evalResult>>

\* the next counting statement
DashQuery(w) ==
    /\ sweeps[w].pc = "count"
    /\ LET sw   == sweeps[w]
           name == DashOrder[sw.k]
       IN sweeps' = [sweeps EXCEPT
             ![w].counts = [sw.counts EXCEPT ![name] = DashCount(name, sw)],
             ![w].k = sw.k + 1,
             ![w].pc = IF sw.k = Len(DashOrder) THEN "metrics" ELSE "count"]
    /\ UNCHANGED <<now, devices, readings, signals, last, evalReading, evalResult>>

\* the device_ids and metrics statements, and the response
DashReturn(w) ==
    /\ sweeps[w].pc = "metrics"
    /\ \E ties \in DashTies :
         last' = DashboardStats(sweeps[w].factory_id, sweeps[w].counts,
                                SensorMetrics(sweeps[w].factory_id, sweeps[w].at, ties))
    /\ sweeps' = [sweeps EXCEPT ![w] = [pc |-> "done"]]
    /\ UNCHANGED <<now, devices, readings, signals, evalReading, evalResult>>

\* ---- SpecSnapshot: a dashboard request while signals are written ----

\* one reading above the temperature limit is stored, no signal yet
InitSnapshot ==
    /\ now = DashNow
    /\ devices = SeedDevices
    /\ readings = << SensorReading(1, DashNow, Hot) >>
    /\ signals = << >>
    /\ last = NoRequest
    /\ sweeps = NoSweeps
    /\ EvalIdle

\* the dashboard is served by worker 1; the sweep and the acknowledgement,
\* each committed at once, by another worker
NextSnapshot ==
    \/ DashBegin(1) \/ DashQuery(1) \/ DashReturn(1)
    \/ MockSweep
    \/ Acknowledge

SpecSnapshot == InitSnapshot /\ [][NextSnapshot]_vars

-----------------------------------------------------------------------------
(* C26  the counts of one dashboard response (SpecSnapshot)                *)

\* C26 as stated: the counts of every dashboard response are those of one
\* snapshot: new_signals <= total_signals, active_alerts <= total_alerts and
\* active_devices <= total_devices, also when other requests create signals
\* while the counting statements run.
C26_CountsOfOneSnapshot ==
    DashboardServed =>
        /\ last.new_signals <= last.total_signals
        /\ last.active_alerts <= last.total_alerts
        /\ last.active_devices <= last.total_devices

====
